---- MODULE Spec2Model ----
(***************************************************************************)
(* A model of cgpde-lib (src/cgpdelib.c): Cartesian Genetic Programming    *)
(* hybridised with Differential Evolution.  Each part of the library is a  *)
(* group of variables with its own specification:                          *)
(*   SpecChromo  one chromosome: gene redraws, setChromosomeActiveNodes,    *)
(*               setChromosomeFitness and executeChromosome                 *)
(*   SpecCGP     runCGP: the (mu + lambda) and (mu, lambda) generation loop *)
(*               with getBestChromosome, selectFittest and the sort         *)
(*   SpecDE      runDE: the sweeps of DE/rand/1/bin over the weights        *)
(*   SpecRepro   mutateRandomParent under the five mutation operators, as   *)
(*               runCGP, runCGPDE_IN and runCGPDE_OUT call it               *)
(*   SpecSlots   the chromosome arrays of runCGP, runCGPDE_IN and           *)
(*               runCGPDE_OUT over a heap of chromosomes and node storage   *)
(*   SpecSeeds   the random draws of concurrent fold runs: rand_r on the    *)
(*               seed of the run, rand on the state of the process          *)
(*   SpecParams  the setters of the tunables of struct parameters           *)
(*   SpecIN      one generation of runCGPDE_IN: the best child is refined  *)
(*               by runDE and replaced by getBestDEChromosome              *)
(*   SpecGenes   the genes of the chromosomes under initialiseChromosome,  *)
(*               mutateChromosome, copyChromosome and reproduction         *)
(*   SpecHarness the data sets of main (src/main.c) over the repeated      *)
(*               cross-validations                                         *)
(*   SpecSingle  the redraw loop of singleMutation; SpecSingleFair adds    *)
(*               fair random draws                                         *)
(*   SpecOperands  the operands a preset node function reads when          *)
(*               executeChromosome calls it                                *)
(* A double is modelled in a miniature floating-point format: the integers *)
(* -DBL_MAX..DBL_MAX are the finite values, DBL_MIN is the smallest        *)
(* positive one, a result beyond the range overflows to an infinity, and   *)
(* NaN, +Infinity and -Infinity behave as in IEEE 754.                     *)
(* Node indices, gene positions and array indices are 0-based, as in C.    *)
(***************************************************************************)
EXTENDS Integers, Sequences, FiniteSets, TLC

(***************************************************************************)
(* Bounds of the model: the dimensions of the chromosomes.                 *)
(***************************************************************************)
NumInputs == 1
NumNodes == 2
Arity == 2
NumOutputs == 1
\* gene redraws explored from the initial chromosome
MaxRedraws == 2
\* samples of the data set
NumSamples == 2

(***************************************************************************)
(* Bounds of the model: the evolutionary loop.                             *)
(***************************************************************************)
\* the largest mu (parents) and lambda (children) explored
MaxMu == 2
MaxLambda == 1
\* numGens: generations of one run
MaxGens == 2
\* distinct genotypes a chromosome of the evolutionary loop can have
NumGenotypes == 4
\* params->maxIter_IN: sweeps of one runDE call
MaxIter == 1
\* params->NP_IN, the smallest population size setNP_IN accepts, and
\* params->NP_OUT
NP_IN == 4
NP_OUT == 5
\* the genes one call of a mutation operator redraws at most
MaxMutations == 2
\* concurrent runs (the folds of main), the draws of one run, and the states
\* of a random number generator
NumRuns == 2
MaxDraws == 3
RandStates == 8
\* setter calls
MaxCalls == 2
\* the largest lambda of runCGPDE_IN explored
MaxChildren == 2
\* calls of mutateChromosome on the chromosomes of one run
MaxMutateCalls == 2
\* the cross-validations of main and the folds of one cross-validation
NumRepetitions == 2
\* calls of setChromosomeFitness on one chromosome
MaxEvaluations == 2
NumFolds == 2

(***************************************************************************)
(* The miniature double format.                                            *)
(***************************************************************************)
\* the largest finite value
DBL_MAX == 3
\* the smallest positive value
DBL_MIN == 1
PosInf == DBL_MAX + 1
NegInf == -(DBL_MAX + 1)
NaN == DBL_MAX + 2
Finite == (-DBL_MAX)..DBL_MAX
Doubles == Finite \cup {PosInf, NegInf, NaN}

(***************************************************************************)
(* The function set: funcSet->maxNumInputs of the registered functions.   *)
(* The presets "add", "div", "abs", "1" and "step", in the order they were *)
(* added (-1: the function takes up to the chromosome arity).              *)
(***************************************************************************)
functionNames == <<"add", "div", "abs", "1", "step">>
maxNumInputs == <<-1, -1, 1, 0, -1>>
numFunctions == Len(maxNumInputs)

Nodes == 0..(NumNodes - 1)
Slots == 0..(Arity - 1)
Outs == 0..(NumOutputs - 1)
Functions == 0..(numFunctions - 1)
Samples == 0..(NumSamples - 1)
Genotypes == 0..(NumGenotypes - 1)

VARIABLES
    chromo,       \* SpecChromo: the chromosome
    params,       \* SpecChromo: shortcutConnections, recurrent connections
    numRedraws,   \* SpecChromo: gene redraws made so far
    evaluations,  \* SpecChromo: calls of setChromosomeFitness that have returned
    resolved,     \* SpecChromo: no gene changed since setChromosomeActiveNodes
    phase,        \* SpecChromo: "idle", "eval" (inside setChromosomeFitness), "done"
    sample,       \* SpecChromo: the sample the fitness function executes next
    error,        \* SpecChromo: the error supervisedLearning has summed so far
    mu,                   \* SpecCGP: params->mu
    lambda,               \* SpecCGP: params->lambda
    evolutionaryStrategy, \* SpecCGP: "+" or ","
    parentChromos,        \* SpecCGP: the parents
    childrenChromos,      \* SpecCGP: the children
    candidateChromos,     \* SpecCGP: the candidates of the selection scheme
    bestChromo,           \* SpecCGP: the running best chromosome
    gen,                  \* SpecCGP: the generation counter
    pc,                   \* SpecCGP: the position of runCGP in its loop
    deType,               \* SpecDE: the type runDE is called with (1 IN, 2 OUT)
    deParams,             \* SpecDE: params->CR and params->F
    DEChromos,            \* SpecDE: the population
    DEChromo_u,           \* SpecDE: the trial solution u
    iter,                 \* SpecDE: the sweep counter t
    target,               \* SpecDE: the individual i the next trial is made for
    populationChromos,    \* SpecDE: the population runDE returns
    algorithm,            \* SpecRepro: the function that calls reproduction
    mutationType,         \* SpecRepro: params->mutationType
    mutationRate,         \* SpecRepro: params->mutationRate, in hundredths
    type,                 \* SpecRepro: the type reproduction is called with
    parent,               \* SpecRepro: the parent the child is cloned from
    child,                \* SpecRepro: the child
    counter,              \* SpecRepro: counter (mutatedActive) of the mutation
    numMutated,           \* SpecRepro: redraws the mutation has made
    mutatedGenes,         \* SpecRepro: the gene slots the mutation has redrawn
    reproPc,              \* SpecRepro: the position of mutateRandomParent
    heap,                 \* SpecSlots: the chromosomes allocated and not freed
    slots,                \* SpecSlots: the chromosome each population slot points to
    slotRun,              \* SpecSlots: the algorithm running and its mu, lambda, strategy
    slotPc,               \* SpecSlots: the position of the algorithm
    slotGen,              \* SpecSlots: the generation counter gen
    slotTarget,           \* SpecSlots: the individual i of runDE's sweep
    best_i,               \* SpecSlots: best_i of runCGPDE_IN
    seed,                 \* SpecSeeds: the seed each run owns
    randState,            \* SpecSeeds: the state of rand(), one for the process
    draws,                \* SpecSeeds: the random numbers each run has drawn
    soloRandState,        \* SpecSeeds: the state of rand() had the run run alone
    soloDrawn,            \* SpecSeeds: the numbers the run draws when it runs alone
    functionSetHasRand,   \* SpecSeeds: the function set holds the function "rand"
    tunables,             \* SpecParams: the tunable fields of struct parameters
    terminated,           \* SpecParams: a setter has called exit
    lastCall,             \* SpecParams: the last setter call and the value before it
    numCalls,             \* SpecParams: setter calls made
    inChildren,           \* SpecIN: childrenChromos of runCGPDE_IN
    inBest,               \* SpecIN: best_i of the generation
    inBefore,             \* SpecIN: the best child as it was before the DE step
    inPc,                 \* SpecIN: the position of runCGPDE_IN in its generation
    geneParams,           \* SpecGenes: shortcutConnections and recurrentConnectionProbability
    geneParent,           \* SpecGenes: a chromosome made by initialiseChromosome
    geneChild,            \* SpecGenes: the child the reproduction scheme writes
    geneTarget,           \* SpecGenes: the chromosome the mutation operator is working on
    geneMutationType,     \* SpecGenes: params->mutationType
    geneRedraws,          \* SpecGenes: redraws the running operator has made
    geneCalls,            \* SpecGenes: calls of mutateChromosome made
    percentage,           \* SpecHarness: percentage of main, in hundredths
    dataSets,             \* SpecHarness: the data sets allocated and not freed
    nextData,             \* SpecHarness: the next data set malloc returns
    mainData,             \* SpecHarness: mainData of main
    reducedData,          \* SpecHarness: reducedData of main
    folds,                \* SpecHarness: folds of main
    foldPc,               \* SpecHarness: the position of each fold run of the parallel loop
    foldData,             \* SpecHarness: the training, validation and testing data of each fold run
    repetition,           \* SpecHarness: the cross-validation counter i
    harnessPc,            \* SpecHarness: the position of main
    harnessFault,         \* SpecHarness: the access to a freed data set main has made
    singleParams,         \* SpecSingle: the parameters the chromosome was made with
    singleChromo,         \* SpecSingle: the genes of the chromosome singleMutation works on
    singleActive,         \* SpecSingle: the nodes whose active flag is set
    singlePc,             \* SpecSingle: the position of singleMutation
    opArity,              \* SpecOperands: the arity of the chromosome
    opFunction,           \* SpecOperands: the preset function of the node under evaluation
    opGathered,           \* SpecOperands: the entries of nodeInputsHold written for this node
    opReads,              \* SpecOperands: the entries of inputs the function has read
    opWeightReads,        \* SpecOperands: the entries of connectionWeights the function has read
    opPc                  \* SpecOperands: the position of executeChromosome in the node

chromoVars == <<chromo, params, numRedraws, evaluations, resolved, phase, sample, error>>
cgpVars == <<mu, lambda, evolutionaryStrategy, parentChromos, childrenChromos,
             candidateChromos, bestChromo, gen, pc>>
deVars == <<deType, deParams, DEChromos, DEChromo_u, iter, target, populationChromos>>
reproVars == <<algorithm, mutationType, mutationRate, type, parent, child, counter,
               numMutated, mutatedGenes, reproPc>>
slotVars == <<heap, slots, slotRun, slotPc, slotGen, slotTarget, best_i>>
seedVars == <<seed, randState, draws, soloRandState, soloDrawn, functionSetHasRand>>
paramVars == <<tunables, terminated, lastCall, numCalls>>
inVars == <<inChildren, inBest, inBefore, inPc>>
geneVars == <<geneParams, geneParent, geneChild, geneTarget, geneMutationType, geneRedraws, geneCalls>>
harnessVars == <<percentage, dataSets, nextData, mainData, reducedData, folds, foldPc, foldData, repetition, harnessPc, harnessFault>>
singleVars == <<singleParams, singleChromo, singleActive, singlePc>>
operandVars == <<opArity, opFunction, opGathered, opReads, opWeightReads, opPc>>
vars == <<chromoVars, cgpVars, deVars, reproVars, slotVars, seedVars, paramVars, inVars, geneVars, harnessVars, singleVars, operandVars>>

\* the variables each specification leaves alone
notChromoVars == <<cgpVars, deVars, reproVars, slotVars, seedVars, paramVars, inVars, geneVars, harnessVars, singleVars, operandVars>>
notCgpVars == <<chromoVars, deVars, reproVars, slotVars, seedVars, paramVars, inVars, geneVars, harnessVars, singleVars, operandVars>>
notDeVars == <<chromoVars, cgpVars, reproVars, slotVars, seedVars, paramVars, inVars, geneVars, harnessVars, singleVars, operandVars>>
notReproVars == <<chromoVars, cgpVars, deVars, slotVars, seedVars, paramVars, inVars, geneVars, harnessVars, singleVars, operandVars>>
notSlotVars == <<chromoVars, cgpVars, deVars, reproVars, seedVars, paramVars, inVars, geneVars, harnessVars, singleVars, operandVars>>
notSeedVars == <<chromoVars, cgpVars, deVars, reproVars, slotVars, paramVars, inVars, geneVars, harnessVars, singleVars, operandVars>>
notParamVars == <<chromoVars, cgpVars, deVars, reproVars, slotVars, seedVars, inVars, geneVars, harnessVars, singleVars, operandVars>>
notInVars == <<chromoVars, cgpVars, deVars, reproVars, slotVars, seedVars, paramVars, geneVars, harnessVars, singleVars, operandVars>>
notInDeVars == <<chromoVars, cgpVars, reproVars, slotVars, seedVars, paramVars, geneVars, harnessVars, singleVars, operandVars>>
notGeneVars == <<chromoVars, cgpVars, deVars, reproVars, slotVars, seedVars, paramVars, inVars, harnessVars, singleVars, operandVars>>
notHarnessVars == <<chromoVars, cgpVars, deVars, reproVars, slotVars, seedVars, paramVars, inVars, geneVars, singleVars, operandVars>>
notSingleVars == <<chromoVars, cgpVars, deVars, reproVars, slotVars, seedVars, paramVars, inVars, geneVars, harnessVars, operandVars>>
notOperandVars == <<chromoVars, cgpVars, deVars, reproVars, slotVars, seedVars, paramVars, inVars, geneVars, harnessVars, singleVars>>

\* runCGPDE_IN has not been called
INIdle ==
    /\ inChildren = <<>>
    /\ inBest = -1
    /\ inBefore = <<>>
    /\ inPc = "idle"

\* no chromosome has been initialised for mutation
GenesIdle ==
    /\ geneParams = <<>>
    /\ geneParent = <<>>
    /\ geneChild = <<>>
    /\ geneTarget = ""
    /\ geneMutationType = ""
    /\ geneRedraws = 0
    /\ geneCalls = 0

\* main has not read the data set
HarnessIdle ==
    /\ percentage = 0
    /\ dataSets = {}
    /\ nextData = 0
    /\ mainData = -1
    /\ reducedData = -1
    /\ folds = <<>>
    /\ foldPc = <<>>
    /\ foldData = <<>>
    /\ repetition = 0
    /\ harnessPc = "idle"
    /\ harnessFault = {}

\* singleMutation has not been called
SingleIdle ==
    /\ singleParams = <<>>
    /\ singleChromo = <<>>
    /\ singleActive = {}
    /\ singlePc = "idle"

\* executeChromosome has not reached a node
OperandsIdle ==
    /\ opArity = 0
    /\ opFunction = <<>>
    /\ opGathered = {}
    /\ opReads = {}
    /\ opWeightReads = {}
    /\ opPc = "idle"

\* runCGP has not been called
CGPIdle ==
    /\ mu = 0
    /\ lambda = 0
    /\ evolutionaryStrategy = "+"
    /\ parentChromos = <<>>
    /\ childrenChromos = <<>>
    /\ candidateChromos = <<>>
    /\ bestChromo = <<>>
    /\ gen = 0
    /\ pc = "idle"

\* no run has drawn a random number
SeedsIdle ==
    /\ seed = <<>>
    /\ randState = 0
    /\ draws = <<>>
    /\ soloRandState = <<>>
    /\ soloDrawn = <<>>
    /\ functionSetHasRand = FALSE

\* no setter has been called
ParamsIdle ==
    /\ tunables = <<>>
    /\ terminated = FALSE
    /\ lastCall = <<>>
    /\ numCalls = 0

\* no algorithm has allocated a chromosome
SlotsIdle ==
    /\ heap = <<>>
    /\ slots = <<>>
    /\ slotRun = <<>>
    /\ slotPc = "idle"
    /\ slotGen = 0
    /\ slotTarget = 0
    /\ best_i = -1

\* the reproduction scheme has not been called
ReproIdle ==
    /\ algorithm = ""
    /\ mutationType = ""
    /\ mutationRate = 0
    /\ type = 0
    /\ parent = <<>>
    /\ child = <<>>
    /\ counter = 0
    /\ numMutated = 0
    /\ mutatedGenes = {}
    /\ reproPc = "idle"

\* runDE has not been called
DEIdle ==
    /\ deType = 0
    /\ deParams = <<>>
    /\ DEChromos = <<>>
    /\ DEChromo_u = <<>>
    /\ iter = 0
    /\ target = 0
    /\ populationChromos = <<>>

(***************************************************************************)
(* Helpers                                                                 *)
(***************************************************************************)
Min(a, b) == IF a < b THEN a ELSE b

\* an array: the function f with every element computed
Array(f) == f @@ f

sortIntArray_None(s) == s

\* ascending order of a sequence of integers (qsort with cmpInt)
RECURSIVE sortIntArray(_)
sortIntArray(s) ==
    IF Len(s) <= 1 THEN s
    ELSE LET m == CHOOSE i \in 1..Len(s) :
                      /\ \A j \in 1..Len(s) : s[i] <= s[j]
                      /\ \A j \in 1..(i - 1) : s[j] # s[i]
             rest == [k \in 1..(Len(s) - 1) |-> IF k < m THEN s[k] ELSE s[k + 1]]
         IN <<s[m]>> \o sortIntArray(rest)

(***************************************************************************)
(* Double arithmetic of the miniature format                               *)
(***************************************************************************)
isnan(x) == x = NaN
isinf(x) == x = PosInf \/ x = NegInf

\* the double nearest to the exact result x
RoundDouble(x) ==
    IF x > DBL_MAX THEN PosInf ELSE IF x < -DBL_MAX THEN NegInf ELSE x

dNeg(a) == IF isnan(a) THEN NaN ELSE -a

dAdd(a, b) ==
    IF isnan(a) \/ isnan(b) THEN NaN
    ELSE IF isinf(a) /\ isinf(b) THEN (IF a = b THEN a ELSE NaN)
    ELSE IF isinf(a) THEN a
    ELSE IF isinf(b) THEN b
    ELSE RoundDouble(a + b)

Sign(a) == IF a > 0 THEN 1 ELSE IF a < 0 THEN -1 ELSE 0

dMul(a, b) ==
    IF isnan(a) \/ isnan(b) THEN NaN
    ELSE IF isinf(a) \/ isinf(b)
         THEN (IF a = 0 \/ b = 0 THEN NaN
               ELSE IF Sign(a) * Sign(b) > 0 THEN PosInf ELSE NegInf)
    ELSE RoundDouble(a * b)

\* a quotient of finite values is rounded toward zero
dDiv(a, b) ==
    IF isnan(a) \/ isnan(b) THEN NaN
    ELSE IF isinf(a) /\ isinf(b) THEN NaN
    ELSE IF isinf(b) THEN 0
    ELSE IF b = 0 THEN (IF a = 0 THEN NaN ELSE IF a > 0 THEN PosInf ELSE NegInf)
    ELSE IF isinf(a) THEN (IF Sign(a) * Sign(b) > 0 THEN PosInf ELSE NegInf)
    ELSE Sign(a) * Sign(b) * ((a * Sign(a)) \div (b * Sign(b)))

fabs(a) == IF isnan(a) THEN NaN ELSE IF a < 0 THEN -a ELSE a

\* a < b on doubles: false when either is NaN
dLess(a, b) == ~isnan(a) /\ ~isnan(b) /\ a < b

(***************************************************************************)
(* Random generators: the sets of values one draw can return.             *)
(***************************************************************************)
\* getRandomFunction: randInt(numFunctions)
getRandomFunction == Functions

\* getRandomNodeInput: a recurrent draw picks the node itself or a later one,
\* any other draw picks a chromosome input or an earlier node
getRandomNodeInput(nodePosition, recurrentPossible) ==
    (0..(NumInputs + nodePosition - 1))
        \cup (IF recurrentPossible
              THEN (nodePosition + NumInputs)..(NumNodes - 1 + NumInputs)
              ELSE {})

\* getRandomChromosomeOutput
getRandomChromosomeOutput(shortcutConnections) ==
    IF shortcutConnections = 1
    THEN 0..(NumInputs + NumNodes - 1)
    ELSE NumInputs..(NumInputs + NumNodes - 1)

(***************************************************************************)
(* Active-node resolution                                                  *)
(***************************************************************************)
getChromosomeNodeArity_AllInputs(c, index) == Arity

getChromosomeNodeArity(c, index) ==
    LET chromoArity == Arity
        maxArity == maxNumInputs[c.function[index] + 1]
    IN IF maxArity = -1 THEN chromoArity
       ELSE IF maxArity < chromoArity THEN maxArity
       ELSE chromoArity

RECURSIVE recursivelySetActiveNodes(_, _)
RECURSIVE visitNodeInputs(_, _, _)

\* the for loop of recursivelySetActiveNodes over the node's first actArity inputs
visitNodeInputs(c, n, i) ==
    IF i >= c.actArity[n] THEN c
    ELSE visitNodeInputs(recursivelySetActiveNodes(c, c.inputs[n][i]), n, i + 1)

recursivelySetActiveNodes(c, nodeIndex) ==
    IF nodeIndex < NumInputs THEN c
    ELSE LET n == nodeIndex - NumInputs IN
         IF c.active[n] = 1 THEN c
         ELSE visitNodeInputs(
                  [c EXCEPT !.active =
                                Array([m \in Nodes |-> IF m = n THEN 1 ELSE c.active[m]]),
                            !.activeNodes = Append(c.activeNodes, n),
                            !.actArity =
                                Array([m \in Nodes |->
                                          IF m = n THEN getChromosomeNodeArity(c, n)
                                          ELSE c.actArity[m]])],
                  n, 0)

\* the loop of setChromosomeActiveNodes over the output genes
RECURSIVE searchFromOutputs(_, _)
searchFromOutputs(c, i) ==
    IF i >= NumOutputs THEN c
    ELSE IF c.outputNodes[i] < NumInputs THEN searchFromOutputs(c, i + 1)
    ELSE searchFromOutputs(recursivelySetActiveNodes(c, c.outputNodes[i]), i + 1)

setChromosomeActiveNodes_KeepList(c) ==
    LET found == searchFromOutputs([c EXCEPT !.active = Array([n \in Nodes |-> 0])], 0)
    IN [found EXCEPT !.activeNodes = sortIntArray(found.activeNodes)]

\* activeNodes holds the first numActiveNodes entries of the C array
setChromosomeActiveNodes(c) ==
    LET reset == [c EXCEPT !.active = Array([n \in Nodes |-> 0]), !.activeNodes = <<>>]
        found == searchFromOutputs(reset, 0)
    IN [found EXCEPT !.activeNodes = sortIntArray(found.activeNodes)]

numActiveNodes(c) == Len(c.activeNodes)

(***************************************************************************)
(* Node functions: numInputs operands in[0..numInputs-1] and the weights   *)
(***************************************************************************)
RECURSIVE FoldOperands(_, _, _, _, _)
\* acc op in[i] op in[i+1] ... for the operands from index i on
FoldOperands(Op(_, _), acc, in, i, numInputs) ==
    IF i >= numInputs THEN acc
    ELSE FoldOperands(Op, Op(acc, in[i]), in, i + 1, numInputs)

_add(numInputs, in, w) == FoldOperands(dAdd, in[0], in, 1, numInputs)
_divide(numInputs, in, w) == FoldOperands(dDiv, in[0], in, 1, numInputs)
_absolute(numInputs, in, w) == fabs(in[0])
_constOne(numInputs, in, w) == 1

RECURSIVE sumWeigtedInputsFrom(_, _, _, _, _)
sumWeigtedInputsFrom(acc, in, w, i, numInputs) ==
    IF i >= numInputs THEN acc
    ELSE sumWeigtedInputsFrom(dAdd(acc, dMul(in[i], w[i])), in, w, i + 1, numInputs)

sumWeigtedInputs(numInputs, in, w) == sumWeigtedInputsFrom(0, in, w, 0, numInputs)

_step(numInputs, in, w) ==
    IF dLess(sumWeigtedInputs(numInputs, in, w), 0) THEN 0 ELSE 1

\* funcSet->functions[f](numInputs, inputs, connectionWeights)
callFunction(f, numInputs, in, w) ==
    CASE functionNames[f + 1] = "add" -> _add(numInputs, in, w)
      [] functionNames[f + 1] = "div" -> _divide(numInputs, in, w)
      [] functionNames[f + 1] = "abs" -> _absolute(numInputs, in, w)
      [] functionNames[f + 1] = "1" -> _constOne(numInputs, in, w)
      [] functionNames[f + 1] = "step" -> _step(numInputs, in, w)

(***************************************************************************)
(* executeChromosome                                                       *)
(***************************************************************************)
sanitiseOutput_KeepInf(out) == IF isnan(out) THEN 0 ELSE out

\* the NaN and infinity policy applied to a node's output
sanitiseOutput(out) ==
    IF isnan(out) THEN 0
    ELSE IF isinf(out) THEN (IF out > 0 THEN DBL_MAX ELSE DBL_MIN)
    ELSE out

RECURSIVE executeActiveNodes(_, _, _)
\* returned[n] records what the function of node n returned on its last call
executeActiveNodes(c, inputs, i) ==
    IF i >= numActiveNodes(c) THEN c
    ELSE LET currentActiveNode == c.activeNodes[i + 1]
             nodeArity == c.actArity[currentActiveNode]
             nodeInputsHold ==
                 Array([j \in 0..(nodeArity - 1) |->
                           LET nodeInputLocation == c.inputs[currentActiveNode][j]
                           IN IF nodeInputLocation < NumInputs
                              THEN inputs[nodeInputLocation]
                              ELSE c.output[nodeInputLocation - NumInputs]])
             result == callFunction(c.function[currentActiveNode], nodeArity,
                                    nodeInputsHold, c.weights[currentActiveNode])
         IN executeActiveNodes(
                [c EXCEPT !.output[currentActiveNode] = sanitiseOutput(result),
                          !.returned[currentActiveNode] = result],
                inputs, i + 1)

executeChromosome(c, inputs) ==
    LET done == executeActiveNodes(c, inputs, 0)
    IN [done EXCEPT !.outputValues =
            Array([o \in Outs |-> IF done.outputNodes[o] < NumInputs
                                  THEN inputs[done.outputNodes[o]]
                                  ELSE done.output[done.outputNodes[o] - NumInputs]])]

resetChromosome_Keep(c) == c

\* resetChromosome: every node's cached output becomes 0
resetChromosome(c) == [c EXCEPT !.output = Array([n \in Nodes |-> 0])]

(***************************************************************************)
(* The data set: sample s has inputs dataInputs(s) and outputs             *)
(* dataOutputs(s).                                                         *)
(***************************************************************************)
dataInputs(s) == Array([i \in 0..(NumInputs - 1) |-> ((s + i) % 3) - 1])
dataOutputs(s) == [o \in Outs |-> (s + o) % 2]

(***************************************************************************)
(* SpecChromo: one chromosome.  Its genes are redrawn one at a time (the   *)
(* three branches of pointMutation's loop body), its active nodes are      *)
(* resolved, and setChromosomeFitness evaluates it with the fitness        *)
(* function supervisedLearning, one executeChromosome call per sample.     *)
(***************************************************************************)
\* initialiseChromosome with the given draw of the output genes; every
\* function gene and input gene came out 0 and every weight -1
newChromosome(outs) ==
    setChromosomeActiveNodes(
        [function |-> [n \in Nodes |-> 0],
         inputs |-> [n \in Nodes |-> [i \in Slots |-> 0]],
         weights |-> [n \in Nodes |-> [i \in Slots |-> -1]],
         outputNodes |-> outs,
         active |-> [n \in Nodes |-> 1],
         actArity |-> [n \in Nodes |-> 0],
         activeNodes |-> <<>>,
         output |-> [n \in Nodes |-> 0],
         returned |-> [n \in Nodes |-> 0],
         outputValues |-> [o \in Outs |-> 0],
         fitness |-> 0])

ChromoInit ==
    /\ params = [shortcutConnections |-> 1, recurrent |-> TRUE]
    /\ chromo = newChromosome([o \in Outs |-> NumInputs + NumNodes - 1])
    /\ numRedraws = 0
    /\ evaluations = 0
    /\ resolved = TRUE
    /\ phase = "idle"
    /\ sample = 0
    /\ error = 0

MutateFunctionGene ==
    /\ phase = "idle"
    /\ numRedraws < MaxRedraws
    /\ \E nodeIndex \in Nodes : \E f \in getRandomFunction :
          chromo' = [chromo EXCEPT !.function[nodeIndex] = f]
    /\ numRedraws' = numRedraws + 1
    /\ resolved' = FALSE
    /\ UNCHANGED <<params, evaluations, phase, sample, error>>
    /\ UNCHANGED notChromoVars

MutateInputGene ==
    /\ phase = "idle"
    /\ numRedraws < MaxRedraws
    /\ \E nodeIndex \in Nodes : \E nodeInputIndex \in Slots :
          \E v \in getRandomNodeInput(nodeIndex, params.recurrent) :
             chromo' = [chromo EXCEPT !.inputs[nodeIndex][nodeInputIndex] = v]
    /\ numRedraws' = numRedraws + 1
    /\ resolved' = FALSE
    /\ UNCHANGED <<params, evaluations, phase, sample, error>>
    /\ UNCHANGED notChromoVars

MutateOutputGene ==
    /\ phase = "idle"
    /\ numRedraws < MaxRedraws
    /\ \E nodeIndex \in Outs :
          \E v \in getRandomChromosomeOutput(params.shortcutConnections) :
             chromo' = [chromo EXCEPT !.outputNodes[nodeIndex] = v]
    /\ numRedraws' = numRedraws + 1
    /\ resolved' = FALSE
    /\ UNCHANGED <<params, evaluations, phase, sample, error>>
    /\ UNCHANGED notChromoVars

SetActive ==
    /\ phase = "idle"
    /\ ~resolved
    /\ chromo' = setChromosomeActiveNodes(chromo)
    /\ resolved' = TRUE
    /\ UNCHANGED <<params, numRedraws, evaluations, phase, sample, error>>
    /\ UNCHANGED notChromoVars

\* setChromosomeFitness up to the call of the fitness function
BeginFitness ==
    /\ phase = "idle"
    /\ chromo' = resetChromosome(setChromosomeActiveNodes(chromo))
    /\ resolved' = TRUE
    /\ phase' = "eval"
    /\ sample' = 0
    /\ error' = 0
    /\ UNCHANGED <<params, numRedraws, evaluations>>
    /\ UNCHANGED notChromoVars

RECURSIVE sumSampleError(_, _, _, _)
\* the loop of supervisedLearning over the outputs of one sample
sumSampleError(acc, c, s, j) ==
    IF j >= NumOutputs THEN acc
    ELSE sumSampleError(
             dAdd(acc, fabs(dAdd(c.outputValues[j], dNeg(dataOutputs(s)[j])))),
             c, s, j + 1)

\* one iteration of supervisedLearning's loop over the samples
ExecuteSample ==
    /\ phase = "eval"
    /\ sample < NumSamples
    /\ LET c == executeChromosome(chromo, dataInputs(sample))
       IN /\ chromo' = c
          /\ error' = sumSampleError(error, c, sample, 0)
    /\ sample' = sample + 1
    /\ UNCHANGED <<params, numRedraws, evaluations, resolved, phase>>
    /\ UNCHANGED notChromoVars

\* supervisedLearning returns and setChromosomeFitness stores the fitness
EndFitness ==
    /\ phase = "eval"
    /\ sample = NumSamples
    /\ chromo' = [chromo EXCEPT !.fitness = error]
    /\ phase' = "done"
    /\ evaluations' = evaluations + 1
    /\ UNCHANGED <<params, numRedraws, resolved, sample, error>>
    /\ UNCHANGED notChromoVars

\* the caller goes on with the chromosome: it may redraw genes and call
\* setChromosomeFitness again
AfterFitness ==
    /\ phase = "done"
    /\ evaluations < MaxEvaluations
    /\ phase' = "idle"
    /\ UNCHANGED <<chromo, params, numRedraws, evaluations, resolved, sample, error>>
    /\ UNCHANGED notChromoVars

ChromoNext ==
    \/ MutateFunctionGene
    \/ MutateInputGene
    \/ MutateOutputGene
    \/ SetActive
    \/ BeginFitness
    \/ ExecuteSample
    \/ EndFitness
    \/ AfterFitness

InitChromo == ChromoInit /\ CGPIdle /\ DEIdle /\ ReproIdle /\ SlotsIdle
    /\ SeedsIdle /\ ParamsIdle
    /\ INIdle
    /\ GenesIdle
    /\ HarnessIdle
    /\ SingleIdle
    /\ OperandsIdle

SpecChromo == InitChromo /\ [][ChromoNext]_vars

(***************************************************************************)
(* C1: after setChromosomeActiveNodes a node is flagged active, and listed *)
(* in activeNodes, exactly when it is reachable from an output gene that   *)
(* addresses a node, following only the first actArity input genes of the  *)
(* nodes reached (actArity: the declared arity clamped to the chromosome   *)
(* arity, or the chromosome arity when the declared arity is -1).          *)
(***************************************************************************)
ClaimedArity(c, n) ==
    LET declared == maxNumInputs[c.function[n] + 1]
    IN IF declared = -1 THEN Arity ELSE Min(declared, Arity)

RECURSIVE ReachClosure(_, _)
ReachClosure(c, S) ==
    LET followed == UNION { { c.inputs[n][i] : i \in 0..(ClaimedArity(c, n) - 1) } : n \in S }
        next == S \cup { a - NumInputs : a \in { x \in followed : x >= NumInputs } }
    IN IF next = S THEN S ELSE ReachClosure(c, next)

ReachableNodes(c) ==
    ReachClosure(c, { c.outputNodes[o] - NumInputs :
                      o \in { x \in Outs : c.outputNodes[x] >= NumInputs } })

C1_ActiveIffReachable ==
    resolved =>
        /\ \A n \in Nodes : (chromo.active[n] = 1) <=> (n \in ReachableNodes(chromo))
        /\ { chromo.activeNodes[k] : k \in 1..Len(chromo.activeNodes) } = ReachableNodes(chromo)
        /\ Len(chromo.activeNodes) = Cardinality(ReachableNodes(chromo))
        /\ \A n \in ReachableNodes(chromo) : chromo.actArity[n] = ClaimedArity(chromo, n)

\* resolved after a redraw: an active node whose function uses fewer inputs
\* than the chromosome arity, and an input gene beyond them that addresses a
\* node left inactive
C1_Witness ==
    /\ resolved
    /\ numRedraws > 0
    /\ \E n \in Nodes :
          /\ chromo.active[n] = 1
          /\ chromo.actArity[n] < Arity
          /\ \E i \in chromo.actArity[n]..(Arity - 1) :
                /\ chromo.inputs[n][i] >= NumInputs
                /\ chromo.active[chromo.inputs[n][i] - NumInputs] = 0

(***************************************************************************)
(* C2: after executeChromosome the cached output of every active node is   *)
(* finite, and it is 0 whenever the node's function returned NaN.          *)
(***************************************************************************)
C2_OutputsFinite ==
    /\ \A x \in Doubles : sanitiseOutput(x) \in Finite
    /\ (phase # "idle" /\ sample > 0) =>
          \A n \in Nodes : chromo.active[n] = 1 =>
              /\ chromo.output[n] \in Finite
              /\ (isnan(chromo.returned[n]) => chromo.output[n] = 0)

\* executed: the function of an active node returned NaN
C2_Witness ==
    /\ phase # "idle" /\ sample > 0
    /\ \E n \in Nodes : chromo.active[n] = 1 /\ isnan(chromo.returned[n])

(***************************************************************************)
(* C3: in executeChromosome a result of +Infinity is stored as the largest *)
(* finite value and a result of -Infinity as the most negative finite      *)
(* value.                                                                  *)
(***************************************************************************)
C3_InfinityKeepsSign ==
    (phase # "idle" /\ sample > 0) =>
        \A n \in Nodes : chromo.active[n] = 1 =>
            /\ (chromo.returned[n] = PosInf => chromo.output[n] = DBL_MAX)
            /\ (chromo.returned[n] = NegInf => chromo.output[n] = -DBL_MAX)

(***************************************************************************)
(* C12: for a chromosome with no recurrent gene (every input gene of an    *)
(* active node addresses a chromosome input or an earlier node),           *)
(* executeChromosome on a fixed input vector gives the same output values  *)
(* whatever node outputs earlier calls on other inputs have cached: the    *)
(* outputs left by any earlier call, and the cleared ones, give the same   *)
(* result.                                                                 *)
(***************************************************************************)
NonRecurrent(c) ==
    \A n \in Nodes : c.active[n] = 1 =>
        \A j \in Slots : c.inputs[n][j] < NumInputs + n

C12_DeterministicExecution ==
    (resolved /\ NonRecurrent(chromo)) =>
        \A s \in Samples :
            LET fresh == executeChromosome(resetChromosome(chromo), dataInputs(s)).outputValues
            IN /\ executeChromosome(chromo, dataInputs(s)).outputValues = fresh
               /\ \A earlier \in Samples :
                     executeChromosome(executeChromosome(chromo, dataInputs(earlier)),
                                       dataInputs(s)).outputValues = fresh

\* a chromosome with no recurrent gene and two active nodes, one feeding the
\* other, holds the outputs of a call on one input vector, and the call on
\* the next input vector gives other output values
C12_Witness ==
    /\ resolved /\ NonRecurrent(chromo)
    /\ phase = "eval" /\ sample > 0 /\ sample < NumSamples
    /\ numActiveNodes(chromo) >= 2
    /\ \E n \in Nodes : \E j \in 0..(chromo.actArity[n] - 1) :
          chromo.active[n] = 1 /\ chromo.inputs[n][j] >= NumInputs
    /\ \E n \in Nodes : chromo.active[n] = 1 /\ chromo.output[n] # 0
    /\ executeChromosome(chromo, dataInputs(sample)).outputValues # chromo.outputValues

(***************************************************************************)
(* C13: active-node resolution is idempotent: setChromosomeActiveNodes     *)
(* run twice with no gene change in between leaves the active flags, the   *)
(* activeNodes list and its order, numActiveNodes and the actArity values  *)
(* that one run leaves.                                                    *)
(***************************************************************************)
C13_ResolutionIdempotent ==
    LET once == setChromosomeActiveNodes(chromo)
        twice == setChromosomeActiveNodes(once)
    IN /\ twice.active = once.active
       /\ twice.activeNodes = once.activeNodes
       /\ numActiveNodes(twice) = numActiveNodes(once)
       /\ twice.actArity = once.actArity

\* genes were redrawn since the last resolution: the resolution changes the
\* active flags and the activeNodes list, and finds two active nodes
C13_Witness ==
    /\ ~resolved
    /\ LET once == setChromosomeActiveNodes(chromo)
       IN /\ once.active # chromo.active
          /\ once.activeNodes # chromo.activeNodes
          /\ once.actArity # chromo.actArity
          /\ numActiveNodes(once) >= 2


(***************************************************************************)
(* SpecCGP: the evolutionary loop of runCGP.  A chromosome is the record   *)
(* of its genotype (genes: nodes and output genes together), its training  *)
(* fitness and its validation fitness.  The fitness function is fixed: it  *)
(* gives every genotype a training and a validation fitness.  A candidate  *)
(* also records the chromosome it was copied from (origin).                *)
(***************************************************************************)
\* params->fitnessFunction on the training and on the validation data
fitnessFunction(genes, data) ==
    IF data = "train" THEN genes \div 2 ELSE genes % 2

setChromosomeFitness(c) == [c EXCEPT !.fitness = fitnessFunction(c.genes, "train")]
setChromosomeFitnessValidation(c) ==
    [c EXCEPT !.fitnessValidation = fitnessFunction(c.genes, "valid")]

\* a chromosome just made by initialiseChromosome
initialiseChromosome(genes) ==
    [genes |-> genes, fitness |-> 0, fitnessValidation |-> 0]

\* copyChromosome: genes and both fitnesses of the source
copyChromosome(src) ==
    [genes |-> src.genes, fitness |-> src.fitness,
     fitnessValidation |-> src.fitnessValidation]

scanBest_Strict(arr, n, acc) == 
    LET RECURSIVE scan(_, _)
        scan(i, a) ==
            IF i >= n THEN a
            ELSE IF arr[i].fitnessValidation < a.best.fitnessValidation
                 THEN scan(i + 1, [best |-> arr[i], flag |-> 1])
                 ELSE scan(i + 1, a)
    IN scan(0, acc)

\* one of the two loops of getBestChromosome
scanBest(arr, n, acc) == 
    LET RECURSIVE scan(_, _)
        scan(i, a) ==
            IF i >= n THEN a
            ELSE IF arr[i].fitnessValidation <= a.best.fitnessValidation
                 THEN scan(i + 1, [best |-> arr[i], flag |-> 1])
                 ELSE scan(i + 1, a)
    IN scan(0, acc)

\* the value of *best when getBestChromosome returns
getBestChromosome(parents, children, numParents, numChildren, best) ==
    LET afterParents == scanBest(parents, numParents, [best |-> best, flag |-> 0])
        afterChildren == scanBest(children, numChildren, afterParents)
    IN IF afterChildren.flag = 1 THEN copyChromosome(afterChildren.best) ELSE best

sortChromosomeArray_None(chromoArray, numChromos) == chromoArray

\* the two nested loops: chromoArray[i] is exchanged with every later
\* chromoArray[j] of strictly lower fitness
sortChromosomeArray(chromoArray, numChromos) ==
    LET RECURSIVE inner(_, _, _)
        inner(a, i, j) ==
            IF j >= numChromos THEN a
            ELSE IF a[i].fitness > a[j].fitness
                 THEN inner([a EXCEPT ![i] = a[j], ![j] = a[i]], i, j + 1)
                 ELSE inner(a, i, j + 1)
        RECURSIVE outer(_, _)
        outer(a, i) ==
            IF i >= numChromos THEN a ELSE outer(inner(a, i, i), i + 1)
    IN outer(chromoArray, 0)

numCandidateChromos ==
    IF evolutionaryStrategy = "+" THEN mu + lambda ELSE lambda

\* runCGP up to the first generation: mu, lambda and the strategy are the
\* caller's, any values setMu, setLambda and setEvolutionaryStrategy accept
CGPInit ==
    /\ mu \in 1..MaxMu
    /\ lambda \in 1..MaxLambda
    /\ evolutionaryStrategy \in {"+", ","}
    /\ \E g \in [0..(mu - 1) -> Genotypes] :
          /\ parentChromos =
                [i \in 0..(mu - 1) |->
                    setChromosomeFitnessValidation(
                        setChromosomeFitness(initialiseChromosome(g[i])))]
          /\ bestChromo = setChromosomeFitnessValidation(initialiseChromosome(g[0]))
    /\ \E g \in [0..(lambda - 1) -> Genotypes] :
          childrenChromos = [i \in 0..(lambda - 1) |-> initialiseChromosome(g[i])]
    /\ candidateChromos =
          [i \in 0..(numCandidateChromos - 1) |->
              [genes |-> 0, fitness |-> 0, fitnessValidation |-> 0,
               origin |-> <<"new", i>>]]
    /\ gen = 0
    /\ pc = "children"

\* set fitness of the children of the population
EvaluateChildren ==
    /\ pc = "children"
    /\ gen < MaxGens
    /\ childrenChromos' =
          [i \in 0..(lambda - 1) |->
              setChromosomeFitnessValidation(setChromosomeFitness(childrenChromos[i]))]
    /\ pc' = "best"
    /\ UNCHANGED <<mu, lambda, evolutionaryStrategy, parentChromos,
                   candidateChromos, bestChromo, gen>>
    /\ UNCHANGED notCgpVars

GetBest ==
    /\ pc = "best"
    /\ bestChromo' = getBestChromosome(parentChromos, childrenChromos, mu, lambda, bestChromo)
    /\ pc' = "candidates"
    /\ UNCHANGED <<mu, lambda, evolutionaryStrategy, parentChromos,
                   childrenChromos, candidateChromos, gen>>
    /\ UNCHANGED notCgpVars

\* the candidates: the children, then under "+" the parents
BuildCandidates ==
    /\ pc = "candidates"
    /\ candidateChromos' =
          [i \in 0..(numCandidateChromos - 1) |->
              IF i < lambda
              THEN [genes |-> childrenChromos[i].genes,
                    fitness |-> childrenChromos[i].fitness,
                    fitnessValidation |-> childrenChromos[i].fitnessValidation,
                    origin |-> <<"child", i>>]
              ELSE [genes |-> parentChromos[i - lambda].genes,
                    fitness |-> parentChromos[i - lambda].fitness,
                    fitnessValidation |-> parentChromos[i - lambda].fitnessValidation,
                    origin |-> <<"parent", i - lambda>>]]
    /\ pc' = "select"
    /\ UNCHANGED <<mu, lambda, evolutionaryStrategy, parentChromos,
                   childrenChromos, bestChromo, gen>>
    /\ UNCHANGED notCgpVars

\* params->selectionScheme, with numParents (mu) at most numCandidateChromos
selectFittest ==
    /\ pc = "select"
    /\ mu <= numCandidateChromos
    /\ LET sorted == sortChromosomeArray(candidateChromos, numCandidateChromos)
       IN /\ candidateChromos' = sorted
          /\ parentChromos' = [i \in 0..(mu - 1) |-> copyChromosome(sorted[i])]
    /\ pc' = "reproduce"
    /\ UNCHANGED <<mu, lambda, evolutionaryStrategy, childrenChromos, bestChromo, gen>>
    /\ UNCHANGED notCgpVars

\* params->selectionScheme, with numParents (mu) above numCandidateChromos:
\* the loop of selectFittest passes candidateChromos[numCandidateChromos], an
\* element after the array, to copyChromosome; the run is followed no further
selectFittestBeyondCandidates ==
    /\ pc = "select"
    /\ mu > numCandidateChromos
    /\ LET sorted == sortChromosomeArray(candidateChromos, numCandidateChromos)
       IN /\ candidateChromos' = sorted
          /\ parentChromos' = [i \in 0..(mu - 1) |->
                                  IF i < numCandidateChromos
                                  THEN copyChromosome(sorted[i]) ELSE parentChromos[i]]
    /\ pc' = "out of bounds"
    /\ UNCHANGED <<mu, lambda, evolutionaryStrategy, childrenChromos, bestChromo, gen>>
    /\ UNCHANGED notCgpVars

\* params->reproductionScheme: every child is the clone of a random parent,
\* mutated (the mutation may leave it any genotype); then the next generation
mutateRandomParent ==
    /\ pc = "reproduce"
    /\ \E from \in [0..(lambda - 1) -> 0..(mu - 1)] :
          \E g \in [0..(lambda - 1) -> Genotypes] :
             childrenChromos' =
                [i \in 0..(lambda - 1) |->
                    [copyChromosome(parentChromos[from[i]]) EXCEPT !.genes = g[i]]]
    /\ gen' = gen + 1
    /\ pc' = "children"
    /\ UNCHANGED <<mu, lambda, evolutionaryStrategy, parentChromos,
                   candidateChromos, bestChromo>>
    /\ UNCHANGED notCgpVars

\* the loop is over: return bestChromo
ReturnBest ==
    /\ pc = "children"
    /\ gen = MaxGens
    /\ pc' = "returned"
    /\ UNCHANGED <<mu, lambda, evolutionaryStrategy, parentChromos,
                   childrenChromos, candidateChromos, bestChromo, gen>>
    /\ UNCHANGED notCgpVars

CGPNext ==
    \/ EvaluateChildren
    \/ GetBest
    \/ BuildCandidates
    \/ selectFittest
    \/ selectFittestBeyondCandidates
    \/ mutateRandomParent
    \/ ReturnBest

InitCGP == CGPInit /\ ChromoInit /\ DEIdle /\ ReproIdle /\ SlotsIdle
    /\ SeedsIdle /\ ParamsIdle
    /\ INIdle
    /\ GenesIdle
    /\ HarnessIdle
    /\ SingleIdle
    /\ OperandsIdle

SpecCGP == InitCGP /\ [][CGPNext]_vars

(***************************************************************************)
(* C5: selectFittest leaves the parents as copies of the numParents        *)
(* candidates of lowest fitness: every parent's fitness is at most that of *)
(* every candidate not selected, and the parents are in ascending fitness  *)
(* order.                                                                  *)
(***************************************************************************)
C5_SelectsFittest ==
    pc = "reproduce" =>
        /\ \A i \in 0..(mu - 1) :
              parentChromos[i] = copyChromosome(candidateChromos[i])
        /\ \A i \in 0..(mu - 1) : \A j \in mu..(numCandidateChromos - 1) :
              parentChromos[i].fitness <= candidateChromos[j].fitness
        /\ \A i \in 0..(mu - 1) : \A j \in i..(mu - 1) :
              parentChromos[i].fitness <= parentChromos[j].fitness
        \* the sorted candidates are the children and parents it was given
        /\ { candidateChromos[i].origin : i \in 0..(numCandidateChromos - 1) }
              = { <<"child", i>> : i \in 0..(lambda - 1) }
                  \cup (IF evolutionaryStrategy = "+"
                        THEN { <<"parent", i>> : i \in 0..(mu - 1) } ELSE {})
        /\ \A i \in 0..(numCandidateChromos - 1) :
              candidateChromos[i].origin[1] = "child" =>
                  copyChromosome(candidateChromos[i])
                      = childrenChromos[candidateChromos[i].origin[2]]

\* selected: a candidate was left out, and the sort moved a candidate that
\* was not among the first numParents into the parents
C5_Witness ==
    /\ pc = "reproduce"
    /\ numCandidateChromos > mu
    /\ mu > 1
    /\ parentChromos[0].fitness < candidateChromos[numCandidateChromos - 1].fitness
    /\ candidateChromos[0].origin = <<"parent", mu - 1>>

\* where a candidate was in candidateChromos before the sort
PositionBefore(c) ==
    IF c.origin[1] = "child" THEN c.origin[2] ELSE lambda + c.origin[2]

(***************************************************************************)
(* C6: sortChromosomeArray is stable: after the sort, two candidates of    *)
(* equal fitness are in the same relative order as before it.              *)
(***************************************************************************)
C6_SortStable ==
    pc = "reproduce" =>
        \A i \in 0..(numCandidateChromos - 1) : \A j \in i..(numCandidateChromos - 1) :
            candidateChromos[i].fitness = candidateChromos[j].fitness =>
                PositionBefore(candidateChromos[i]) <= PositionBefore(candidateChromos[j])

(***************************************************************************)
(* C7: under the "+" strategy, when a child and a parent among the         *)
(* candidates have equal fitness and selection keeps only one of the two,  *)
(* it keeps the child.                                                     *)
(***************************************************************************)
C7_TiesFavourChild ==
    (pc = "reproduce" /\ evolutionaryStrategy = "+") =>
        \A i \in 0..(numCandidateChromos - 1) : \A j \in 0..(numCandidateChromos - 1) :
            ( /\ candidateChromos[i].origin[1] = "parent"
              /\ candidateChromos[j].origin[1] = "child"
              /\ candidateChromos[i].fitness = candidateChromos[j].fitness )
            => ~(i < mu /\ j >= mu)

(***************************************************************************)
(* C8: in runCGP every call of getBestChromosome leaves the running best   *)
(* with the minimum validation fitness over the previous best and all the  *)
(* parents and children (so it never increases), and the running best is   *)
(* the last examined chromosome (parents first, then children) with that   *)
(* fitness; runCGP returns the running best.                               *)
(***************************************************************************)
\* the chromosomes getBestChromosome examines, in order
Examined == [i \in 0..(mu + lambda - 1) |->
                IF i < mu THEN parentChromos[i] ELSE childrenChromos[i - mu]]

C8_RunningBest ==
    [][ /\ (pc = "best" =>
              LET ex == Examined
                  least == CHOOSE m \in { ex[i].fitnessValidation : i \in DOMAIN ex }
                                          \cup { bestChromo.fitnessValidation } :
                              /\ \A i \in DOMAIN ex : m <= ex[i].fitnessValidation
                              /\ m <= bestChromo.fitnessValidation
                  ties == { i \in DOMAIN ex : ex[i].fitnessValidation = least }
              IN /\ bestChromo'.fitnessValidation = least
                 /\ bestChromo'.fitnessValidation <= bestChromo.fitnessValidation
                 /\ IF ties = {} THEN bestChromo' = bestChromo
                    ELSE bestChromo' =
                            ex[CHOOSE i \in ties : \A k \in ties : k <= i])
        /\ (pc # "best" => bestChromo' = bestChromo)
      ]_vars

\* getBestChromosome has run on a tie: a parent and a later child of other
\* genes share the least validation fitness, and the child is the best
C8_Witness ==
    /\ pc = "candidates"
    /\ gen > 0
    /\ \E i \in 0..(mu - 1) : \E j \in 0..(lambda - 1) :
          /\ parentChromos[i].fitnessValidation = bestChromo.fitnessValidation
          /\ childrenChromos[j].fitnessValidation = bestChromo.fitnessValidation
          /\ parentChromos[i].genes # childrenChromos[j].genes
          /\ bestChromo = childrenChromos[j]


(***************************************************************************)
(* SpecDE: runDE (type 1: CGPDE-IN) on one chromosome.  Every individual   *)
(* is a weightsVector and a chromosome; the fitness function is            *)
(* supervisedLearning on the data set.                                     *)
(***************************************************************************)
numWeights == NumNodes * Arity
Weights == 0..(numWeights - 1)
NP_AlwaysIn == NP_IN

\* NP of runDE and of initialiseDEPopulation
NP ==
    CASE deType = 1 -> NP_IN
      [] deType = 2 -> NP_OUT
      [] OTHER -> 0

Individuals == 0..(NP - 1)

\* setChromosomeFitness with supervisedLearning, start to end
RECURSIVE supervisedLearning(_, _, _)
\* the loop over the samples, from sample s on; the fitness is stored
supervisedLearning(c, s, err) ==
    IF s >= NumSamples THEN [c EXCEPT !.fitness = err]
    ELSE LET e == executeChromosome(c, dataInputs(s))
         IN supervisedLearning(e, s + 1, sumSampleError(err, e, s, 0))

evaluateChromosome(c) ==
    supervisedLearning(resetChromosome(setChromosomeActiveNodes(c)), 0, 0)

\* copyChromosome on chromosomes with nodes: the cached node outputs and the
\* output values of the destination stay
copyChromosomeNodes(dest, src) ==
    [dest EXCEPT !.function = src.function,
                 !.inputs = src.inputs,
                 !.weights = src.weights,
                 !.active = src.active,
                 !.actArity = src.actArity,
                 !.activeNodes = src.activeNodes,
                 !.outputNodes = src.outputNodes,
                 !.fitness = src.fitness]

\* initialiseChromosomeFromChromosome
initialiseChromosomeFromChromosome(src) ==
    setChromosomeActiveNodes(
        [function |-> src.function,
         inputs |-> src.inputs,
         weights |-> src.weights,
         outputNodes |-> src.outputNodes,
         active |-> src.active,
         actArity |-> src.actArity,
         activeNodes |-> <<>>,
         output |-> [n \in Nodes |-> 0],
         returned |-> [n \in Nodes |-> 0],
         outputValues |-> [o \in Outs |-> 0],
         fitness |-> src.fitness])

transferWeightsVectorToChromo_None(DEChromo) == DEChromo

transferWeightsVectorToChromo(DEChromo) ==
    [DEChromo EXCEPT !.chromo.weights =
        Array([n \in Nodes |->
                  Array([j \in Slots |-> DEChromo.weightsVector[n * Arity + j]])])]

\* the chromosome runDE is given: a feed-forward network of "step" nodes,
\* every weight -1
DEChromosome ==
    LET step == CHOOSE f \in Functions : functionNames[f + 1] = "step"
        drawn == newChromosome([o \in Outs |-> NumInputs + NumNodes - 1 - (o % NumNodes)])
    IN setChromosomeActiveNodes(
           [drawn EXCEPT !.function = [n \in Nodes |-> step],
                     !.inputs = [n \in Nodes |->
                                    [j \in Slots |-> (n + j) % (NumInputs + n)]]])

\* initialiseDEPopulation: individual 0 keeps the weights of the chromosome,
\* the others get the weights drawn (draw[k][j] for weight j of individual k)
initialiseDEPopulation(c, draw) ==
    [k \in Individuals |->
        LET made == [weightsVector |->
                        Array([j \in Weights |->
                                  IF k = 0 THEN c.weights[j \div Arity][j % Arity]
                                  ELSE draw[k][j]]),
                     chromo |-> initialiseChromosomeFromChromosome(c)]
            moved == IF k = 0 THEN made ELSE transferWeightsVectorToChromo(made)
        IN [moved EXCEPT !.chromo = evaluateChromosome(moved.chromo)]]

\* initialiseDEChromosome
initialiseDEChromosome(c, draw) ==
    LET moved == transferWeightsVectorToChromo(
                     [weightsVector |-> draw,
                      chromo |-> initialiseChromosomeFromChromosome(c)])
    IN [moved EXCEPT !.chromo = evaluateChromosome(moved.chromo)]

\* getRandomConnectionWeight: the draws the format can hold (the range is
\* [-connectionWeightRange, connectionWeightRange[ with range 1)
getRandomConnectionWeight == {-1, 0}

\* the weights initialiseDEPopulation draws for individual k
drawnWeights(k) == Array([j \in Weights |-> IF (k + j) % 2 = 0 THEN -1 ELSE 0])

\* runDE up to its loop: type, CR and F are the caller's (F is 0 or 1 with
\* the population of NP_IN, and 0 with the larger one of NP_OUT)
DEInit ==
    /\ deType \in {1, 2}
    /\ deParams \in [CR : {0, 1}, F : IF deType = 1 THEN {0, 1} ELSE {0}]
    /\ DEChromos = initialiseDEPopulation(DEChromosome, [k \in Individuals |-> drawnWeights(k)])
    /\ DEChromo_u = initialiseDEChromosome(DEChromosome, drawnWeights(NP))
    /\ iter = 0
    /\ target = 0
    /\ populationChromos = <<>>

acceptTrial_Always(fit_u, fit_s) == TRUE

\* fit_u <= fit_s on doubles
acceptTrial(fit_u, fit_s) ==
    ~isnan(fit_u) /\ ~isnan(fit_s) /\ fit_u <= fit_s

crossedWeights_None(CR, jr) == {{}}

crossedWeights_Inclusive(CR, jr) ==
    { drawn \cup {jr} : drawn \in SUBSET Weights }

\* the sets of weights j with rj < CR or j = jr: randDecimal draws rj in
\* [0, 1[, so no rj is below CR = 0 and every rj is below CR = 1
crossedWeights(CR, jr) ==
    IF CR = 0 THEN {{jr}} ELSE {Weights}

\* the body of the loop over the individuals: one trial for DEChromos[target]
DETrial ==
    /\ iter < MaxIter
    /\ target < NP
    /\ \E r1 \in Individuals \ {target} :
       \E r2 \in Individuals \ {target, r1} :
       \E r3 \in Individuals \ {target, r1, r2} :
       \E jr \in Weights :
       \E crossed \in crossedWeights(deParams.CR, jr) :
       \E w \in { Array([j \in Weights |->
                       IF j \in crossed
                       THEN dAdd(DEChromos[r3].weightsVector[j],
                                 dMul(deParams.F,
                                      dAdd(DEChromos[r1].weightsVector[j],
                                           dNeg(DEChromos[r2].weightsVector[j]))))
                       ELSE DEChromos[target].weightsVector[j]]) } :
       \E moved \in { transferWeightsVectorToChromo(
                          [DEChromo_u EXCEPT !.weightsVector = w]) } :
       \E fitted \in { evaluateChromosome(moved.chromo) } :
          LET u == [weightsVector |-> w, chromo |-> fitted]
              fit_u == fitted.fitness
              fit_s == DEChromos[target].chromo.fitness
          IN /\ DEChromo_u' = u
             /\ DEChromos' =
                   IF acceptTrial(fit_u, fit_s)
                   THEN [DEChromos EXCEPT
                            ![target] = [weightsVector |-> w,
                                         chromo |-> copyChromosomeNodes(
                                                        DEChromos[target].chromo, fitted)]]
                   ELSE DEChromos
    /\ target' = target + 1
    /\ UNCHANGED <<deType, deParams, iter, populationChromos>>
    /\ UNCHANGED notDeVars

\* the loop over the individuals is over: the next sweep
DENextSweep ==
    /\ iter < MaxIter
    /\ target = NP
    /\ iter' = iter + 1
    /\ target' = 0
    /\ UNCHANGED <<deType, deParams, DEChromos, DEChromo_u, populationChromos>>
    /\ UNCHANGED notDeVars

\* the sweeps are over: fill populationChromos and return it
DEReturn ==
    /\ iter = MaxIter
    /\ populationChromos = <<>>
    /\ populationChromos' =
          [k \in Individuals |-> initialiseChromosomeFromChromosome(DEChromos[k].chromo)]
    /\ UNCHANGED <<deType, deParams, DEChromos, DEChromo_u, iter, target>>
    /\ UNCHANGED notDeVars

DENext ==
    \/ DETrial
    \/ DENextSweep
    \/ DEReturn

InitDE == DEInit /\ ChromoInit /\ CGPIdle /\ ReproIdle /\ SlotsIdle
    /\ SeedsIdle /\ ParamsIdle
    /\ INIdle
    /\ GenesIdle
    /\ HarnessIdle
    /\ SingleIdle
    /\ OperandsIdle

SpecDE == InitDE /\ [][DENext]_vars

(***************************************************************************)
(* C4: in runDE the training fitness of an individual never increases: a   *)
(* trial replaces its target exactly when the trial's fitness is less than *)
(* or equal to the target's, and a step changes no other individual.       *)
(***************************************************************************)
C4_SweepMonotone ==
    [][ \A k \in Individuals :
          /\ DEChromos'[k].chromo.fitness <= DEChromos[k].chromo.fitness
          /\ (DEChromos'[k] # DEChromos[k] =>
                /\ k = target
                /\ DEChromo_u'.chromo.fitness <= DEChromos[k].chromo.fitness
                /\ DEChromos'[k].weightsVector = DEChromo_u'.weightsVector
                /\ DEChromos'[k].chromo.weights = DEChromo_u'.chromo.weights
                /\ DEChromos'[k].chromo.fitness = DEChromo_u'.chromo.fitness)
          /\ ( ( k = target /\ target' = target + 1
                 /\ DEChromo_u'.chromo.fitness <= DEChromos[k].chromo.fitness )
               => DEChromos'[k].weightsVector = DEChromo_u'.weightsVector )
      ]_vars

\* the trial for an individual was rejected, after another individual was
\* replaced by a trial of different weights and strictly lower fitness and
\* a third by a trial of different weights and equal fitness
C4_Witness ==
    /\ target > 0
    /\ DEChromo_u.chromo.fitness > DEChromos[target - 1].chromo.fitness
    /\ LET first == initialiseDEPopulation(DEChromosome,
                                          [m \in Individuals |-> drawnWeights(m)])
       IN /\ \E k \in 0..(target - 2) :
                /\ DEChromos[k].weightsVector # first[k].weightsVector
                /\ DEChromos[k].chromo.fitness < first[k].chromo.fitness
          /\ \E k \in 0..(target - 2) :
                /\ DEChromos[k].weightsVector # first[k].weightsVector
                /\ DEChromos[k].chromo.fitness = first[k].chromo.fitness


(***************************************************************************)
(* C16, as stated: in runDE, for every target, every sweep and any CR including 0,    *)
(* the trial weight vector differs from the weight vector of its target in *)
(* at least one coordinate.                                                *)
(***************************************************************************)
C16_TrialDiffersFromTarget ==
    [][ target' = target + 1 =>
            \E j \in Weights :
                DEChromo_u'.weightsVector[j] # DEChromos[target].weightsVector[j] ]_vars

(***************************************************************************)
(* C16, amended: for any CR including 0, coordinate jr of the trial is the *)
(* donor combination weight[r3][jr] + F x (weight[r1][jr] - weight[r2][jr])*)
(* of three distinct donors other than the target, and with CR = 0 every   *)
(* other coordinate is the target's; the trial equals its target when the  *)
(* combination equals the target's weight.                                 *)
(***************************************************************************)
donorCombination(r1, r2, r3, j) ==
    dAdd(DEChromos[r3].weightsVector[j],
         dMul(deParams.F, dAdd(DEChromos[r1].weightsVector[j],
                               dNeg(DEChromos[r2].weightsVector[j]))))

C16_ForcedCoordinate ==
    [][ target' = target + 1 =>
            \E r1 \in Individuals \ {target} :
            \E r2 \in Individuals \ {target, r1} :
            \E r3 \in Individuals \ {target, r1, r2} :
            \E jr \in Weights :
               \A j \in Weights :
                  DEChromo_u'.weightsVector[j] =
                     IF j = jr \/ deParams.CR = 1
                     THEN donorCombination(r1, r2, r3, j)
                     ELSE DEChromos[target].weightsVector[j] ]_vars

\* CR = 0, first sweep: the trial made for an individual has the weight
\* vector the individual had, the donor combination at jr being its weight
C16_Witness ==
    /\ deParams.CR = 0
    /\ iter = 0 /\ target > 0
    /\ LET first == initialiseDEPopulation(DEChromosome,
                                          [m \in Individuals |-> drawnWeights(m)])
       IN DEChromo_u.weightsVector = first[target - 1].weightsVector

(***************************************************************************)
(* C17: with NP = 4, F = 0 and CR = 0 a trial changes at most one          *)
(* coordinate of the weight vector of its target and nothing of the other  *)
(* individuals, so that a sweep, which makes one trial for each            *)
(* individual, changes at most one coordinate of each; and no individual's *)
(* training fitness increases.                                             *)
(***************************************************************************)
changedWeights(before, after) ==
    { j \in Weights : after.weightsVector[j] # before.weightsVector[j] }

C17_OneCoordinatePerSweep ==
    [][ (NP = 4 /\ deParams.F = 0 /\ deParams.CR = 0 /\ DEChromos' # DEChromos) =>
            /\ \A k \in Individuals \ {target} : DEChromos'[k] = DEChromos[k]
            /\ Cardinality(changedWeights(DEChromos[target], DEChromos'[target])) <= 1
            /\ Cardinality(changedWeights(DEChromos[target], DEChromo_u')) <= 1
            /\ DEChromos'[target].chromo.weights
                  = [n \in Nodes |-> [i \in Slots |->
                        DEChromos'[target].weightsVector[(n * Arity) + i]]]
            /\ DEChromos'[target].chromo.fitness <= DEChromos[target].chromo.fitness
      ]_vars

\* NP = 4, F = 0, CR = 0: the sweep is over, and it changed exactly one
\* coordinate of one individual, which lowered its fitness, and nothing of
\* another
C17_Witness ==
    /\ NP = 4 /\ deParams.F = 0 /\ deParams.CR = 0
    /\ target = NP
    /\ LET first == initialiseDEPopulation(DEChromosome,
                                          [m \in Individuals |-> drawnWeights(m)])
       IN /\ \E k \in Individuals :
                /\ Cardinality(changedWeights(first[k], DEChromos[k])) = 1
                /\ DEChromos[k].chromo.fitness < first[k].chromo.fitness
          /\ \E k \in Individuals : DEChromos[k] = first[k]

(***************************************************************************)
(* C11: runDE returns a population of exactly NP chromosomes, NP_IN for    *)
(* type 1 and NP_OUT for type 2, and the topology is frozen: every         *)
(* individual, the trial and every returned chromosome has the function    *)
(* genes, input genes and output genes of the seed chromosome.             *)
(***************************************************************************)
sameTopology(c, seedChromo) ==
    /\ c.function = seedChromo.function
    /\ c.inputs = seedChromo.inputs
    /\ c.outputNodes = seedChromo.outputNodes

C11_FrozenTopology ==
    /\ \A k \in DOMAIN DEChromos : sameTopology(DEChromos[k].chromo, DEChromosome)
    /\ sameTopology(DEChromo_u.chromo, DEChromosome)
    /\ populationChromos # <<>> =>
          /\ DOMAIN populationChromos = 0..((IF deType = 1 THEN NP_IN ELSE NP_OUT) - 1)
          /\ \A k \in DOMAIN populationChromos :
                sameTopology(populationChromos[k], DEChromosome)

\* runDE of type 2 has returned, and a returned chromosome has other weights
\* and another fitness than the individual the population started with
C11_Witness ==
    /\ deType = 2
    /\ populationChromos # <<>>
    /\ LET first == initialiseDEPopulation(DEChromosome,
                                          [m \in Individuals |-> drawnWeights(m)])
       IN \E k \in Individuals :
             /\ populationChromos[k].weights # first[k].chromo.weights
             /\ populationChromos[k].fitness # first[k].chromo.fitness

(***************************************************************************)
(* SpecRepro: the reproduction scheme mutateRandomParent as runCGP,        *)
(* runCGPDE_IN and runCGPDE_OUT call it, for one child: the child becomes  *)
(* the clone of a parent and is mutated by params->mutationType.  The      *)
(* loops of the mutation operators are followed one gene at a time.        *)
(***************************************************************************)
reproductionType_AllZero(caller) == 0

\* the type argument of params->reproductionScheme at the three call sites
reproductionType(caller) ==
    CASE caller = "runCGP" -> 0
      [] caller = "runCGPDE_IN" -> 1
      [] caller = "runCGPDE_OUT" -> 1

mutationTypes == {"probabilistic", "point", "pointANN", "onlyActive", "single"}

\* params->mutationRate in hundredths: the rates of the model
mutationRates == {10, 30}

\* numGenes of pointMutation, and of pointMutationANN with its weight genes
numGenes ==
    NumNodes + (NumNodes * Arity)
        + (IF mutationType = "pointANN" THEN NumNodes * Arity ELSE 0) + NumOutputs

\* roundf of x hundredths, x >= 0: the nearest integer, halves away from zero
roundf(x) == ((2 * x) + 100) \div 200

\* numGenesToMutate of pointMutation and pointMutationANN
numGenesToMutate == roundf(numGenes * mutationRate)

\* a parent: the chromosome whose output genes address the last node, whose
\* function gene is f
parentChromosome(f) ==
    LET drawn == newChromosome([o \in Outs |-> NumInputs + NumNodes - 1])
    IN setChromosomeActiveNodes(
           [drawn EXCEPT !.function =
               Array([n \in Nodes |-> IF n = NumNodes - 1 THEN f ELSE drawn.function[n]])])

\* the caller reaches its call of the reproduction scheme; the child is a
\* chromosome made by initialiseChromosome (the operators that redraw each
\* gene with probability mutationRate are followed at one rate)
ReproInit ==
    /\ algorithm \in {"runCGP", "runCGPDE_IN", "runCGPDE_OUT"}
    /\ mutationType \in mutationTypes
    /\ mutationRate \in (IF mutationType \in {"point", "pointANN"}
                         THEN mutationRates ELSE {10})
    /\ type = reproductionType(algorithm)
    /\ parent \in { parentChromosome(f) : f \in {0, 2} }
    /\ child = newChromosome([o \in Outs |-> 0])
    /\ counter = 0
    /\ numMutated = 0
    /\ mutatedGenes = {}
    /\ reproPc = "clone"

\* set child as clone of random parent
CloneParent ==
    /\ reproPc = "clone"
    /\ child' = copyChromosomeNodes(child, parent)
    /\ reproPc' = "mutate"
    /\ UNCHANGED <<algorithm, mutationType, mutationRate, type, parent, counter,
                   numMutated, mutatedGenes>>
    /\ UNCHANGED notReproVars

\* the mutation operator goes on to another gene
MutationContinues ==
    /\ reproPc = "mutate"
    /\ numMutated < MaxMutations
    /\ (mutationType \in {"point", "pointANN"} => counter < numGenesToMutate)
    /\ (mutationType = "single" => counter = 0)

\* the nodes whose genes the operator may redraw
MutableNodes ==
    IF mutationType = "onlyActive"
    THEN { child.activeNodes[k] : k \in 1..Len(child.activeNodes) }
    ELSE Nodes

\* the counter after a gene of node nodeIndex went from previous to new
CountNodeGene(nodeIndex, previousGeneValue, newGeneValue) ==
    CASE mutationType = "point" -> counter + 1
      [] mutationType = "pointANN" ->
            IF child.active[nodeIndex] = 1 THEN counter + 1 ELSE counter
      [] mutationType = "single" ->
            IF previousGeneValue # newGeneValue /\ child.active[nodeIndex] = 1
            THEN 1 ELSE 0
      [] OTHER -> counter

\* mutate function gene
ReproMutateFunction ==
    /\ MutationContinues
    /\ \E nodeIndex \in MutableNodes : \E f \in getRandomFunction :
          /\ child' = [child EXCEPT !.function[nodeIndex] = f]
          /\ mutatedGenes' = mutatedGenes \cup {<<"function", nodeIndex, 0>>}
          /\ counter' = CountNodeGene(nodeIndex, child.function[nodeIndex], f)
    /\ numMutated' = numMutated + 1
    /\ UNCHANGED <<algorithm, mutationType, mutationRate, type, parent, reproPc>>
    /\ UNCHANGED notReproVars

\* mutate node input gene
ReproMutateInput ==
    /\ MutationContinues
    /\ \E nodeIndex \in MutableNodes : \E nodeInputIndex \in Slots :
          \E v \in getRandomNodeInput(nodeIndex, params.recurrent) :
             /\ child' = [child EXCEPT !.inputs[nodeIndex][nodeInputIndex] = v]
             /\ mutatedGenes' = mutatedGenes \cup {<<"input", nodeIndex, nodeInputIndex>>}
             /\ counter' = CountNodeGene(nodeIndex, child.inputs[nodeIndex][nodeInputIndex], v)
    /\ numMutated' = numMutated + 1
    /\ UNCHANGED <<algorithm, mutationType, mutationRate, type, parent, reproPc>>
    /\ UNCHANGED notReproVars

\* mutate connection weight: the probabilistic operators do it under type 0,
\* pointMutationANN always, the others have no weight genes
ReproMutateWeight ==
    /\ MutationContinues
    /\ \/ mutationType \in {"probabilistic", "onlyActive"} /\ type = 0
       \/ mutationType = "pointANN"
    /\ \E nodeIndex \in MutableNodes : \E nodeInputIndex \in Slots :
          \E w \in getRandomConnectionWeight :
             /\ child' = [child EXCEPT !.weights[nodeIndex][nodeInputIndex] = w]
             /\ mutatedGenes' = mutatedGenes \cup {<<"weight", nodeIndex, nodeInputIndex>>}
             /\ counter' = CountNodeGene(nodeIndex, 0, 0)
    /\ numMutated' = numMutated + 1
    /\ UNCHANGED <<algorithm, mutationType, mutationRate, type, parent, reproPc>>
    /\ UNCHANGED notReproVars

\* mutate output gene
ReproMutateOutput ==
    /\ MutationContinues
    /\ \E nodeIndex \in Outs :
          \E v \in getRandomChromosomeOutput(params.shortcutConnections) :
             /\ child' = [child EXCEPT !.outputNodes[nodeIndex] = v]
             /\ mutatedGenes' = mutatedGenes \cup {<<"output", nodeIndex, 0>>}
             /\ counter' =
                   CASE mutationType \in {"point", "pointANN"} -> counter + 1
                     [] mutationType = "single" ->
                           IF child.outputNodes[nodeIndex] # v THEN 1 ELSE 0
                     [] OTHER -> counter
    /\ numMutated' = numMutated + 1
    /\ UNCHANGED <<algorithm, mutationType, mutationRate, type, parent, reproPc>>
    /\ UNCHANGED notReproVars

\* the operator returns, and mutateChromosome sets the active nodes
FinishMutation ==
    /\ reproPc = "mutate"
    /\ (mutationType \in {"point", "pointANN"} => counter >= numGenesToMutate)
    /\ (mutationType = "single" => counter = 1)
    /\ child' = setChromosomeActiveNodes(child)
    /\ reproPc' = "done"
    /\ UNCHANGED <<algorithm, mutationType, mutationRate, type, parent, counter,
                   numMutated, mutatedGenes>>
    /\ UNCHANGED notReproVars

ReproNext ==
    \/ CloneParent
    \/ ReproMutateFunction
    \/ ReproMutateInput
    \/ ReproMutateWeight
    \/ ReproMutateOutput
    \/ FinishMutation

InitRepro == ReproInit /\ ChromoInit /\ CGPIdle /\ DEIdle /\ SlotsIdle
    /\ SeedsIdle /\ ParamsIdle
    /\ INIdle
    /\ GenesIdle
    /\ HarnessIdle
    /\ SingleIdle
    /\ OperandsIdle

SpecRepro == InitRepro /\ [][ReproNext]_vars

(***************************************************************************)
(* C9: in runCGPDE_IN reproduction changes no connection weight: whatever  *)
(* the mutation type, the child has the weights of the parent it was       *)
(* cloned from.                                                            *)
(***************************************************************************)
C9_InKeepsWeights ==
    (algorithm = "runCGPDE_IN" /\ reproPc = "done") => child.weights = parent.weights

(***************************************************************************)
(* C14: one call of point mutation redraws exactly round(G x rate)         *)
(* distinct gene slots, G = numNodes + numNodes x arity + numOutputs, and  *)
(* never a weight gene.                                                    *)
(***************************************************************************)
C14_PointRedrawsDistinct ==
    (mutationType = "point" /\ reproPc = "done") =>
        /\ Cardinality(mutatedGenes)
              = roundf((NumNodes + (NumNodes * Arity) + NumOutputs) * mutationRate)
        /\ \A g \in mutatedGenes : g[1] # "weight"

(***************************************************************************)
(* C15: singleMutation returns after exactly one phenotypically effective  *)
(* change: exactly one gene the phenotype depends on (the function gene of *)
(* a node active on entry, an input gene of such a node below the node's   *)
(* actual arity, or an output gene) differs from its value on entry.       *)
(***************************************************************************)
phenotypeGenes(entry) ==
    { <<"function", n, 0>> : n \in { m \in Nodes : entry.active[m] = 1 } }
        \cup { <<"input", n, j>> : n \in { m \in Nodes : entry.active[m] = 1 }, j \in Slots }
        \cup { <<"output", o, 0>> : o \in Outs }

geneValue(c, g) ==
    CASE g[1] = "function" -> c.function[g[2]]
      [] g[1] = "input" -> c.inputs[g[2]][g[3]]
      [] g[1] = "weight" -> c.weights[g[2]][g[3]]
      [] g[1] = "output" -> c.outputNodes[g[2]]

C15_SingleOneEffectiveChange ==
    (mutationType = "single" /\ reproPc = "done") =>
        Cardinality({ g \in phenotypeGenes(parent) :
                        /\ (g[1] = "input" => g[3] < parent.actArity[g[2]])
                        /\ geneValue(child, g) # geneValue(parent, g) }) = 1

(***************************************************************************)
(* C10, as stated: runCGPDE_OUT calls reproduction in the weight-mutating  *)
(* mode of runCGP.                                                         *)
(***************************************************************************)
C10_OutMutatesWeights ==
    algorithm = "runCGPDE_OUT" => type = reproductionType("runCGP")

(***************************************************************************)
(* C10, amended: runCGPDE_OUT calls reproduction with type 1, the mode of  *)
(* runCGPDE_IN and not that of runCGP, and under the probabilistic and     *)
(* onlyActive mutation operators its children keep the weights of their    *)
(* parent.                                                                 *)
(***************************************************************************)
C10_OutKeepsWeights ==
    algorithm = "runCGPDE_OUT" =>
        /\ type = 1
        /\ type # reproductionType("runCGP")
        /\ (mutationType \in {"probabilistic", "onlyActive"} /\ reproPc \in {"mutate", "done"})
              => child.weights = parent.weights

\* runCGPDE_OUT, probabilistic mutation: the child is done, a gene of it was
\* redrawn to another value, and runCGP can reach a child of other weights
C10_Witness ==
    /\ algorithm = "runCGPDE_OUT"
    /\ mutationType = "probabilistic"
    /\ reproPc = "done"
    /\ numMutated > 0
    /\ <<child.function, child.inputs, child.outputNodes>>
          # <<parent.function, parent.inputs, parent.outputNodes>>


(***************************************************************************)
(* SpecSlots: the chromosome instances of runCGP, runCGPDE_IN and          *)
(* runCGPDE_OUT, with runDE inside the last two.  heap.nodes gives the     *)
(* node storage of every chromosome allocated and not freed, heap.genes    *)
(* what a node storage holds (genes, weights, active set and fitness       *)
(* together, as one value), and slots gives the chromosome each population *)
(* slot points to.                                                         *)
(***************************************************************************)
geneValues == {0, 1}

\* malloc of Len(values) chromosomes with their node storage, holding values
heapAllocate(h, values) ==
    LET new == h.next..(h.next + Len(values) - 1)
    IN [nodes |-> [id \in (DOMAIN h.nodes) \cup new |->
                      IF id \in new THEN id ELSE h.nodes[id]],
        genes |-> [s \in (DOMAIN h.genes) \cup new |->
                      IF s \in new THEN values[s - h.next + 1] ELSE h.genes[s]],
        next |-> h.next + Len(values)]

\* freeChromosome of the chromosomes ids
heapFree(h, ids) ==
    [nodes |-> [id \in (DOMAIN h.nodes) \ ids |-> h.nodes[id]],
     genes |-> [s \in (DOMAIN h.genes) \ { h.nodes[id] : id \in ids } |-> h.genes[s]],
     next |-> h.next]

heapCopyChromosome_Shallow(h, dest, src) ==
    [nodes |-> [id \in DOMAIN h.nodes |-> IF id = dest THEN h.nodes[src] ELSE h.nodes[id]],
     genes |-> h.genes,
     next |-> h.next]

\* copyChromosome: the values of src are written into the storage of dest
heapCopyChromosome(h, dest, src) ==
    [nodes |-> h.nodes,
     genes |-> [s \in DOMAIN h.genes |->
                   IF s = h.nodes[dest] THEN h.genes[h.nodes[src]] ELSE h.genes[s]],
     next |-> h.next]

\* a write to the genes or weights of chromosome id
heapWrite(h, id, v) ==
    [nodes |-> h.nodes,
     genes |-> [s \in DOMAIN h.genes |-> IF s = h.nodes[id] THEN v ELSE h.genes[s]],
     next |-> h.next]

RECURSIVE heapCopyEach(_, _, _, _)
\* copyChromosome(dests[i], srcs[i]) for i from the given index on
heapCopyEach(h, dests, srcs, i) ==
    IF i \notin DOMAIN dests THEN h
    ELSE heapCopyEach(heapCopyChromosome(h, dests[i], srcs[i]), dests, srcs, i + 1)

RECURSIVE heapWriteEach(_, _, _, _)
heapWriteEach(h, dests, values, i) ==
    IF i \notin DOMAIN dests THEN h
    ELSE heapWriteEach(heapWrite(h, dests[i], values[i]), dests, values, i + 1)

\* what the chromosome id holds
slotView(id) == heap.genes[heap.nodes[id]]

\* numCandidateChromos
slotNumCandidates(run) ==
    IF run.strategy = "+" THEN run.mu + run.lambda ELSE run.lambda

\* NP of the runDE call the algorithm makes
slotNP == IF slotRun.algorithm = "runCGPDE_IN" THEN NP_IN ELSE NP_OUT

\* the runs: mu, lambda and the strategy are the caller's, with lambda >= mu
\* under ',' (selectFittest then stays within the candidates)
slotRuns ==
    { run \in [algorithm : {"runCGP", "runCGPDE_IN", "runCGPDE_OUT"},
               mu : 1..MaxMu, lambda : 1..MaxLambda, strategy : {"+", ","}] :
         run.strategy = "," => run.lambda >= run.mu }

\* the algorithm up to its generation loop: parents, children, bestChromo and
\* candidates are allocated in this order
SlotsInit ==
    /\ slotRun \in slotRuns
    /\ LET m == slotRun.mu
           l == slotRun.lambda
           nc == slotNumCandidates(slotRun)
       IN /\ heap = heapAllocate([nodes |-> <<>>, genes |-> <<>>, next |-> 0],
                                 [k \in 1..(m + l + 1 + nc) |-> 0])
          /\ slots = [parents |-> [i \in 0..(m - 1) |-> i],
                      children |-> [i \in 0..(l - 1) |-> m + i],
                      best |-> m + l,
                      candidates |-> [i \in 0..(nc - 1) |-> m + l + 1 + i],
                      de |-> <<>>,
                      trial |-> -1,
                      population |-> <<>>]
    /\ slotPc = "evaluate"
    /\ slotGen = 0
    /\ slotTarget = 0
    /\ best_i = -1

\* the position after the body of the generation loop
slotLoopEnd == IF slotGen + 1 < MaxGens THEN "evaluate" ELSE "afterLoop"

\* runCGPDE_IN: no child has a fitness below DBL_MAX, best_i stays -1 and
\* childrenChromos[-1] is read as a chromosome: the run ends there
SlotNoBestChild ==
    /\ slotPc = "evaluate"
    /\ slotRun.algorithm = "runCGPDE_IN"
    /\ slotPc' = "crashed"
    /\ UNCHANGED <<heap, slots, slotRun, slotGen, slotTarget, best_i>>
    /\ UNCHANGED notSlotVars

\* runDE up to its sweeps, for the best child (IN) or for bestChromo (OUT):
\* NP individuals and the trial u are initialised from the chromosome
SlotDEInit ==
    /\ \/ slotRun.algorithm = "runCGPDE_IN" /\ slotPc = "evaluate"
       \/ slotRun.algorithm = "runCGPDE_OUT" /\ slotPc = "afterLoop"
    /\ \E b \in (IF slotRun.algorithm = "runCGPDE_IN"
                 THEN 0..(slotRun.lambda - 1) ELSE {-1}) :
          LET seedChromo == IF b = -1 THEN slots.best ELSE slots.children[b]
              v == slotView(seedChromo)
          IN /\ heap' = heapAllocate(heap, [k \in 1..(slotNP + 1) |->
                                               IF k = 1 THEN v ELSE (v + k) % 2])
             /\ slots' = [slots EXCEPT
                             !.de = [k \in 0..(slotNP - 1) |-> heap.next + k],
                             !.trial = heap.next + slotNP]
             /\ best_i' = b
    /\ slotPc' = "de"
    /\ slotTarget' = 0
    /\ UNCHANGED <<slotRun, slotGen>>
    /\ UNCHANGED notSlotVars

\* one trial of runDE: the weights of u are written, and u is copied into
\* the target if it is accepted
SlotDETrial ==
    /\ slotPc = "de"
    /\ slotTarget < slotNP
    /\ \E v \in geneValues : \E accepted \in BOOLEAN :
          LET written == heapWrite(heap, slots.trial, v)
          IN heap' = IF accepted
                     THEN heapCopyChromosome(written, slots.de[slotTarget], slots.trial)
                     ELSE written
    /\ slotTarget' = slotTarget + 1
    /\ UNCHANGED <<slots, slotRun, slotPc, slotGen, best_i>>
    /\ UNCHANGED notSlotVars

\* runDE returns: populationChromos are new chromosomes initialised from the
\* individuals, and the individuals and u are freed
SlotDEReturn ==
    /\ slotPc = "de"
    /\ slotTarget = slotNP
    /\ LET made == heapAllocate(heap, [k \in 1..slotNP |-> slotView(slots.de[k - 1])])
       IN heap' = heapFree(made, { slots.de[k] : k \in DOMAIN slots.de } \cup {slots.trial})
    /\ slots' = [slots EXCEPT
                    !.population = [k \in 0..(slotNP - 1) |-> heap.next + k],
                    !.de = <<>>,
                    !.trial = -1]
    /\ slotPc' = IF slotRun.algorithm = "runCGPDE_IN" THEN "deBest" ELSE "afterDE"
    /\ UNCHANGED <<slotRun, slotGen, slotTarget, best_i>>
    /\ UNCHANGED notSlotVars

\* runCGPDE_IN: childrenChromos[best_i] is set to the chromosome
\* getBestDEChromosome allocates and fills, and bestChromo is updated from it
SlotGetBestDE ==
    /\ slotPc = "deBest"
    /\ \E k \in DOMAIN slots.population : \E better \in BOOLEAN :
          LET best == heap.next
              made == heapAllocate(heap, <<slotView(slots.population[0])>>)
              copied == heapCopyChromosome(made, best, slots.population[k])
          IN /\ heap' = IF better
                        THEN heapCopyChromosome(copied, slots.best, best)
                        ELSE copied
             /\ slots' = [slots EXCEPT !.children =
                             [i \in DOMAIN slots.children |->
                                 IF i = best_i THEN best ELSE slots.children[i]]]
    /\ slotPc' = "candidates"
    /\ UNCHANGED <<slotRun, slotGen, slotTarget, best_i>>
    /\ UNCHANGED notSlotVars

\* runCGP and runCGPDE_OUT: getBestChromosome copies a parent or a child into
\* bestChromo, or nothing
SlotGetBest ==
    /\ slotPc = "evaluate"
    /\ slotRun.algorithm \in {"runCGP", "runCGPDE_OUT"}
    /\ \E src \in {-1} \cup { slots.parents[i] : i \in DOMAIN slots.parents }
                      \cup { slots.children[i] : i \in DOMAIN slots.children } :
          heap' = IF src = -1 THEN heap ELSE heapCopyChromosome(heap, slots.best, src)
    /\ slotPc' = "candidates"
    /\ UNCHANGED <<slots, slotRun, slotGen, slotTarget, best_i>>
    /\ UNCHANGED notSlotVars

\* the candidates: the children, and under '+' the parents after them
SlotBuildCandidates ==
    /\ slotPc = "candidates"
    /\ heap' = heapCopyEach(heap, slots.candidates,
                            [i \in DOMAIN slots.candidates |->
                                IF i < slotRun.lambda
                                THEN slots.children[i]
                                ELSE slots.parents[i - slotRun.lambda]],
                            0)
    /\ slotPc' = "select"
    /\ UNCHANGED <<slots, slotRun, slotGen, slotTarget, best_i>>
    /\ UNCHANGED notSlotVars

\* selectFittest: the sort exchanges the pointers of candidateChromos (any
\* order may come out, the fitness values being any), and the first mu
\* candidates are copied into the parents
SlotSelect ==
    /\ slotPc = "select"
    /\ \E order \in { f \in [DOMAIN slots.candidates -> DOMAIN slots.candidates] :
                         \A a, b \in DOMAIN slots.candidates : a # b => f[a] # f[b] } :
          LET sorted == [i \in DOMAIN slots.candidates |-> slots.candidates[order[i]]]
          IN /\ slots' = [slots EXCEPT !.candidates = sorted]
             /\ heap' = heapCopyEach(heap, slots.parents, sorted, 0)
    /\ slotPc' = "reproduce"
    /\ UNCHANGED <<slotRun, slotGen, slotTarget, best_i>>
    /\ UNCHANGED notSlotVars

\* mutateRandomParent: every child becomes the copy of a parent and is mutated
SlotReproduce ==
    /\ slotPc = "reproduce"
    /\ \E from \in [DOMAIN slots.children -> DOMAIN slots.parents] :
       \E g \in [DOMAIN slots.children -> geneValues] :
          heap' = heapWriteEach(
                      heapCopyEach(heap, slots.children,
                                   [i \in DOMAIN slots.children |-> slots.parents[from[i]]], 0),
                      slots.children, g, 0)
    /\ IF slotRun.algorithm = "runCGPDE_IN"
       THEN slotPc' = "free" /\ slotGen' = slotGen
       ELSE slotPc' = slotLoopEnd /\ slotGen' = slotGen + 1
    /\ UNCHANGED <<slots, slotRun, slotTarget, best_i>>
    /\ UNCHANGED notSlotVars

\* runCGPDE_IN: clear the chromosomes returned by DE
SlotFreePopulation ==
    /\ slotPc = "free"
    /\ heap' = heapFree(heap, { slots.population[k] : k \in DOMAIN slots.population })
    /\ slots' = [slots EXCEPT !.population = <<>>]
    /\ slotPc' = slotLoopEnd
    /\ slotGen' = slotGen + 1
    /\ UNCHANGED <<slotRun, slotTarget, best_i>>
    /\ UNCHANGED notSlotVars

\* the algorithm returns: parents, children and candidates are freed, and
\* bestChromo too where populationChromos is returned
SlotFinish ==
    /\ \/ slotRun.algorithm \in {"runCGP", "runCGPDE_IN"} /\ slotPc = "afterLoop"
       \/ slotRun.algorithm = "runCGPDE_OUT" /\ slotPc = "afterDE"
    /\ heap' = heapFree(heap,
                        { slots.parents[i] : i \in DOMAIN slots.parents }
                           \cup { slots.children[i] : i \in DOMAIN slots.children }
                           \cup { slots.candidates[i] : i \in DOMAIN slots.candidates }
                           \cup (IF slotRun.algorithm = "runCGPDE_OUT"
                                 THEN {slots.best} ELSE {}))
    /\ slots' = [slots EXCEPT
                    !.parents = <<>>, !.children = <<>>, !.candidates = <<>>,
                    !.best = IF slotRun.algorithm = "runCGPDE_OUT" THEN -1 ELSE slots.best]
    /\ slotPc' = "returned"
    /\ UNCHANGED <<slotRun, slotGen, slotTarget, best_i>>
    /\ UNCHANGED notSlotVars

SlotsNext ==
    \/ SlotNoBestChild
    \/ SlotDEInit
    \/ SlotDETrial
    \/ SlotDEReturn
    \/ SlotGetBestDE
    \/ SlotGetBest
    \/ SlotBuildCandidates
    \/ SlotSelect
    \/ SlotReproduce
    \/ SlotFreePopulation
    \/ SlotFinish

InitSlots == SlotsInit /\ ChromoInit /\ CGPIdle /\ DEIdle /\ ReproIdle
    /\ SeedsIdle /\ ParamsIdle
    /\ INIdle
    /\ GenesIdle
    /\ HarnessIdle
    /\ SingleIdle
    /\ OperandsIdle

SpecSlots == InitSlots /\ [][SlotsNext]_vars

(***************************************************************************)
(* C18: at every point of runCGP, runCGPDE_IN, runCGPDE_OUT and runDE no   *)
(* two population slots (parents, children, candidates, running best, DE   *)
(* individuals, DE trial, returned population) point to the same           *)
(* chromosome or share node storage, and every slot points to a chromosome *)
(* that has not been freed; so reproduction changes what the children hold *)
(* and nothing any other slot holds, and a trial of runDE changes what the *)
(* trial and its target hold and nothing any other slot holds.             *)
(***************************************************************************)
slotEntries ==
    { <<"parent", i>> : i \in DOMAIN slots.parents }
        \cup { <<"child", i>> : i \in DOMAIN slots.children }
        \cup { <<"candidate", i>> : i \in DOMAIN slots.candidates }
        \cup { <<"individual", i>> : i \in DOMAIN slots.de }
        \cup { <<"population", i>> : i \in DOMAIN slots.population }
        \cup (IF slots.best = -1 THEN {} ELSE {<<"best", 0>>})
        \cup (IF slots.trial = -1 THEN {} ELSE {<<"trial", 0>>})

slotChromosome(e) ==
    CASE e[1] = "parent" -> slots.parents[e[2]]
      [] e[1] = "child" -> slots.children[e[2]]
      [] e[1] = "candidate" -> slots.candidates[e[2]]
      [] e[1] = "individual" -> slots.de[e[2]]
      [] e[1] = "population" -> slots.population[e[2]]
      [] e[1] = "best" -> slots.best
      [] e[1] = "trial" -> slots.trial

SlotsDisjoint ==
    /\ \A e \in slotEntries :
          /\ slotChromosome(e) \in DOMAIN heap.nodes
          /\ heap.nodes[slotChromosome(e)] \in DOMAIN heap.genes
    /\ \A e1, e2 \in slotEntries : e1 # e2 =>
          /\ slotChromosome(e1) # slotChromosome(e2)
          /\ heap.nodes[slotChromosome(e1)] # heap.nodes[slotChromosome(e2)]

C18_SlotsOwnTheirChromosomes ==
    [][ /\ SlotsDisjoint
        /\ SlotsDisjoint'
        /\ slotPc = "reproduce" =>
              \A e \in slotEntries : e[1] # "child" =>
                 heap'.genes[heap'.nodes[slotChromosome(e)]] = slotView(slotChromosome(e))
        /\ (slotPc = "de" /\ slotTarget' = slotTarget + 1) =>
              \A e \in slotEntries \ {<<"trial", 0>>, <<"individual", slotTarget>>} :
                 heap'.genes[heap'.nodes[slotChromosome(e)]] = slotView(slotChromosome(e))
      ]_vars

\* runCGPDE_IN after a generation: a child was mutated away from every parent,
\* the chromosome childrenChromos[best_i] pointed to before runDE is still
\* allocated with no slot pointing to it, and bestChromo holds what no parent
\* holds
C18_Witness ==
    /\ slotRun.algorithm = "runCGPDE_IN"
    /\ slotGen >= 1
    /\ slotPc \in {"evaluate", "afterLoop"}
    /\ \E i \in DOMAIN slots.children : \A j \in DOMAIN slots.parents :
          slotView(slots.children[i]) # slotView(slots.parents[j])
    /\ \A j \in DOMAIN slots.parents : slotView(slots.best) # slotView(slots.parents[j])
    /\ Cardinality(DOMAIN heap.nodes) > Cardinality(slotEntries)


(***************************************************************************)
(* SpecSeeds: the random draws of NumRuns concurrent runs, each owning a   *)
(* seed.  randInt and randDecimal draw with rand_r(seed); the node         *)
(* function "rand" (_randFloat) draws with rand().  A generator is a       *)
(* function from its state to the next state, which is the number draws.   *)
(***************************************************************************)
Runs == 0..(NumRuns - 1)

\* rand_r and rand: the next state of the generator
nextRandom(state) == ((5 * state) + 3) % RandStates

\* main gives run j the seed (i * 10) + j + 5; rand() starts from srand(1)
SeedsInit ==
    /\ seed = [j \in Runs |-> (j + 5) % RandStates]
    /\ randState = 1
    /\ draws = [j \in Runs |-> <<>>]
    /\ soloRandState = [j \in Runs |-> 1]
    /\ soloDrawn = [j \in Runs |-> <<>>]
    /\ functionSetHasRand \in BOOLEAN

\* randInt, randDecimal: rand_r(seed) on the seed of the run
randDecimal(j) ==
    /\ Len(draws[j]) < MaxDraws
    /\ seed' = [seed EXCEPT ![j] = nextRandom(seed[j])]
    /\ draws' = [draws EXCEPT ![j] = Append(draws[j], nextRandom(seed[j]))]
    /\ soloDrawn' = [soloDrawn EXCEPT ![j] = Append(soloDrawn[j], nextRandom(seed[j]))]
    /\ UNCHANGED <<randState, soloRandState, functionSetHasRand>>
    /\ UNCHANGED notSeedVars

\* _randFloat, called by executeChromosome for a node of function "rand":
\* rand() on the state of the process
_randFloat(j) ==
    /\ functionSetHasRand
    /\ Len(draws[j]) < MaxDraws
    /\ randState' = nextRandom(randState)
    /\ draws' = [draws EXCEPT ![j] = Append(draws[j], nextRandom(randState))]
    /\ soloRandState' = [soloRandState EXCEPT ![j] = nextRandom(soloRandState[j])]
    /\ soloDrawn' = [soloDrawn EXCEPT ![j] =
                        Append(soloDrawn[j], nextRandom(soloRandState[j]))]
    /\ UNCHANGED <<seed, functionSetHasRand>>
    /\ UNCHANGED notSeedVars

SeedsNext ==
    \/ \E j \in Runs : randDecimal(j)
    \/ \E j \in Runs : _randFloat(j)

InitSeeds == SeedsInit /\ ChromoInit /\ CGPIdle /\ DEIdle /\ ReproIdle /\ SlotsIdle
    /\ ParamsIdle
    /\ INIdle
    /\ GenesIdle
    /\ HarnessIdle
    /\ SingleIdle
    /\ OperandsIdle

SpecSeeds == InitSeeds /\ [][SeedsNext]_vars

(***************************************************************************)
(* C19: every random draw of a run reads and updates only the seed the run *)
(* owns, so that concurrent runs cannot influence one another: each run    *)
(* draws the numbers it draws when it runs alone.                          *)
(***************************************************************************)
C19_RunsDrawFromOwnSeed ==
    /\ randState = 1
    /\ \A j \in Runs : draws[j] = soloDrawn[j]

(***************************************************************************)
(* SpecParams: the setters of the tunables with a documented range.  A     *)
(* double is given in hundredths.                                          *)
(***************************************************************************)
setterNames == {"setMutationRate", "setRecurrentConnectionProbability", "setMu",
                "setLambda", "setEvolutionaryStrategy", "setShortcutConnections",
                "setNumThreads", "setCR", "setF"}

\* the field of struct parameters a setter sets
tunableOf(setter) ==
    CASE setter = "setMutationRate" -> "mutationRate"
      [] setter = "setRecurrentConnectionProbability" -> "recurrentConnectionProbability"
      [] setter = "setMu" -> "mu"
      [] setter = "setLambda" -> "lambda"
      [] setter = "setEvolutionaryStrategy" -> "evolutionaryStrategy"
      [] setter = "setShortcutConnections" -> "shortcutConnections"
      [] setter = "setNumThreads" -> "numThreads"
      [] setter = "setCR" -> "CR"
      [] setter = "setF" -> "F"
      [] setter = "setArity" -> "arity"

\* the arguments a caller passes
setterArguments(setter) ==
    CASE setter \in {"setMutationRate", "setRecurrentConnectionProbability", "setCR"}
            -> {-1, 0, 100, 101}
      [] setter = "setF" -> {-1, 0, 200, 201}
      [] setter \in {"setMu", "setLambda", "setNumThreads"} -> {-1, 0, 1, 2}
      [] setter = "setShortcutConnections" -> {-1, 0, 1, 2}
      [] setter = "setEvolutionaryStrategy" -> {"+", ",", "x"}
      [] setter = "setArity" -> {-1, 0, 1, 2}

\* the condition under which the setter stores its argument
setterStores(setter, v) ==
    CASE setter \in {"setMutationRate", "setRecurrentConnectionProbability"}
            -> v >= 0 /\ v <= 100
      [] setter \in {"setMu", "setLambda"} -> v > 0
      [] setter = "setEvolutionaryStrategy" -> v = "+" \/ v = ","
      [] setter = "setShortcutConnections" -> v = 0 \/ v = 1
      [] setter = "setNumThreads" -> TRUE
      [] setter = "setCR" -> ~(v < 0 \/ v > 100)
      [] setter = "setF" -> ~(v < 0 \/ v > 200)
      [] setter = "setArity" -> ~(v < 0)

\* the condition under which the setter calls exit (setArity: arity < 0)
setterExits(setter, v) ==
    CASE setter = "setCR" -> v < 0 \/ v > 100
      [] setter = "setF" -> v < 0 \/ v > 200
      [] setter = "setArity" -> v < 0
      [] OTHER -> FALSE

\* initialiseParameters: the default values, and setArity on the arity given;
\* when setArity exits, the arity field was never assigned and is never read
ParamsInit ==
    /\ \E arity \in setterArguments("setArity") :
          /\ terminated = setterExits("setArity", arity)
          /\ tunables = [arity |-> IF setterExits("setArity", arity) THEN 0 ELSE arity,
                         mutationRate |-> 5,
                         recurrentConnectionProbability |-> 0,
                         mu |-> 1,
                         lambda |-> 4,
                         evolutionaryStrategy |-> "+",
                         shortcutConnections |-> 1,
                         numThreads |-> 1,
                         CR |-> 50,
                         F |-> 100]
    /\ lastCall = [setter |-> "initialiseParameters", argument |-> 0, before |-> 0]
    /\ numCalls = 0

\* one call of a setter
CallSetter ==
    /\ ~terminated
    /\ numCalls < MaxCalls
    /\ \E setter \in setterNames \cup {"setArity"} : \E v \in setterArguments(setter) :
          /\ lastCall' = [setter |-> setter, argument |-> v,
                          before |-> tunables[tunableOf(setter)]]
          /\ terminated' = setterExits(setter, v)
          /\ tunables' = IF ~setterExits(setter, v) /\ setterStores(setter, v)
                         THEN [f \in DOMAIN tunables |->
                                  IF f = tunableOf(setter) THEN v ELSE tunables[f]]
                         ELSE tunables
    /\ numCalls' = numCalls + 1
    /\ UNCHANGED notParamVars

ParamsNext == CallSetter

InitParams == ParamsInit /\ ChromoInit /\ CGPIdle /\ DEIdle /\ ReproIdle /\ SlotsIdle
    /\ SeedsIdle
    /\ INIdle
    /\ GenesIdle
    /\ HarnessIdle
    /\ SingleIdle
    /\ OperandsIdle

SpecParams == InitParams /\ [][ParamsNext]_vars

(***************************************************************************)
(* C20: a setter given a value outside the documented range of its tunable *)
(* (mutation rate and recurrent-connection probability in [0,1], mu and    *)
(* lambda at least 1, strategy '+' or ',', shortcut flag 0 or 1, thread    *)
(* count at least 1, CR in [0,1], F in [0,2]) is non-fatal and leaves the  *)
(* stored value unchanged.                                                 *)
(***************************************************************************)
documentedRange(setter, v) ==
    CASE setter \in {"setMutationRate", "setRecurrentConnectionProbability", "setCR"}
            -> v >= 0 /\ v <= 100
      [] setter = "setF" -> v >= 0 /\ v <= 200
      [] setter \in {"setMu", "setLambda", "setNumThreads"} -> v >= 1
      [] setter = "setEvolutionaryStrategy" -> v \in {"+", ","}
      [] setter = "setShortcutConnections" -> v \in {0, 1}

C20_OutOfRangeLeavesValue ==
    (lastCall.setter \in setterNames
        /\ ~documentedRange(lastCall.setter, lastCall.argument)) =>
        /\ ~terminated
        /\ tunables[tunableOf(lastCall.setter)] = lastCall.before

(***************************************************************************)
(* C21: an invalid node arity is fatal: initialiseParameters and setArity  *)
(* terminate the program for any arity less than one, so that no           *)
(* parameters object of a running program has an arity below one.          *)
(***************************************************************************)
C21_ArityAtLeastOne == ~terminated => tunables.arity >= 1

(***************************************************************************)
(* C22: in runDE the per-node weights of every individual of the           *)
(* population, and of the trial once its fitness has been evaluated, equal *)
(* the flattened weightsVector of the individual (weight j of node n is    *)
(* entry n * arity + j), and the stored fitness is the fitness of exactly  *)
(* those weights.                                                          *)
(***************************************************************************)
weightsInStep(DEChromo) ==
    /\ \A n \in Nodes : \A j \in Slots :
          DEChromo.chromo.weights[n][j] = DEChromo.weightsVector[(n * Arity) + j]
    /\ DEChromo.chromo.fitness = evaluateChromosome(DEChromo.chromo).fitness

C22_WeightsInStep ==
    deType # 0 =>
        /\ \A k \in Individuals : weightsInStep(DEChromos[k])
        /\ weightsInStep(DEChromo_u)

\* a trial with weights other than the ones its individual started with has
\* just replaced the individual
C22_Witness ==
    /\ deType # 0
    /\ target > 0
    /\ DEChromos[target - 1].weightsVector = DEChromo_u.weightsVector
    /\ DEChromos[target - 1].weightsVector #
          (IF target = 1 THEN [j \in Weights |-> -1] ELSE drawnWeights(target - 1))
    /\ DEChromos[target - 1].chromo.fitness = DEChromo_u.chromo.fitness

(***************************************************************************)
(* SpecIN: one generation of runCGPDE_IN up to the replacement of the best *)
(* child: the children are evaluated, runDE (type 1) refines the best one  *)
(* and getBestDEChromosome takes its place.                                *)
(***************************************************************************)
\* a child whose last node divides the constant 1 by the first input
overflowingChild ==
    LET one == CHOOSE f \in Functions : functionNames[f + 1] = "1"
        div == CHOOSE f \in Functions : functionNames[f + 1] = "div"
    IN setChromosomeActiveNodes(
           [newChromosome([o \in Outs |-> NumInputs + NumNodes - 1]) EXCEPT
               !.function = [n \in Nodes |-> IF n = 0 THEN one ELSE div],
               !.inputs = [n \in Nodes |->
                              [j \in Slots |-> IF n > 0 /\ j = 0 THEN NumInputs ELSE 0]]])

\* the children a generation starts with: networks of "step" nodes of two
\* weight settings, and the dividing child
childOptions ==
    { DEChromosome,
      [DEChromosome EXCEPT !.weights = [n \in Nodes |-> [j \in Slots |-> 0]]],
      overflowingChild }

\* the loop that evaluates the children has stored the index of the best one
RECURSIVE bestChildIndex(_, _, _, _)
bestChildIndex(children, i, best_fit, best) ==
    IF i >= Len(children) THEN best
    ELSE IF dLess(children[i + 1].fitness, best_fit)
         THEN bestChildIndex(children, i + 1, children[i + 1].fitness, i)
         ELSE bestChildIndex(children, i + 1, best_fit, best)

RECURSIVE bestDEIndex(_, _, _)
\* the loop of getBestDEChromosome for type 1, from chromos[i] on
bestDEIndex(chromos, i, bestSoFar) ==
    IF i >= NP THEN bestSoFar
    ELSE IF dLess(chromos[i].fitness, chromos[bestSoFar].fitness)
         THEN bestDEIndex(chromos, i + 1, i)
         ELSE bestDEIndex(chromos, i + 1, bestSoFar)

getBestDEChromosome(chromos) ==
    copyChromosomeNodes(initialiseChromosomeFromChromosome(chromos[0]),
                        chromos[bestDEIndex(chromos, 1, 0)])

\* the start of a generation: lambda children (a sequence, child i at i + 1)
INInit ==
    /\ \E numChildren \in 1..MaxChildren :
          inChildren \in [1..numChildren -> childOptions]
    /\ inBest = -1
    /\ inBefore = <<>>
    /\ inPc = "evaluate"
    /\ deType = 1
    /\ deParams \in [CR : {0, 1}, F : {0, 1}]
    /\ DEChromos = <<>>
    /\ DEChromo_u = <<>>
    /\ iter = 0
    /\ target = 0
    /\ populationChromos = <<>>

\* every child is evaluated and the index of the best one stored; runDE is
\* called on childrenChromos[best_i] and initialises its population
INEvaluateChildren ==
    /\ inPc = "evaluate"
    /\ \E evaluated \in { [i \in DOMAIN inChildren |-> evaluateChromosome(inChildren[i])] } :
       \E best \in { bestChildIndex(evaluated, 0, DBL_MAX, -1) } :
          /\ inChildren' = evaluated
          /\ inBest' = best
          /\ best >= 0
          /\ inBefore' = evaluated[best + 1]
          /\ DEChromos' = initialiseDEPopulation(evaluated[best + 1],
                                                 [k \in Individuals |-> drawnWeights(k)])
          /\ DEChromo_u' = initialiseDEChromosome(evaluated[best + 1], drawnWeights(NP))
    /\ inPc' = "de"
    /\ UNCHANGED <<deType, deParams, iter, target, populationChromos>>
    /\ UNCHANGED notInDeVars

\* no child has a fitness below DBL_MAX: best_i is still -1 and runDE is
\* called on childrenChromos[-1], an element before the array
INNoBestChild ==
    /\ inPc = "evaluate"
    /\ \E evaluated \in { [i \in DOMAIN inChildren |-> evaluateChromosome(inChildren[i])] } :
          /\ bestChildIndex(evaluated, 0, DBL_MAX, -1) = -1
          /\ inChildren' = evaluated
    /\ inBest' = -1
    /\ inPc' = "out of bounds"
    /\ UNCHANGED <<inBefore, deVars>>
    /\ UNCHANGED notInDeVars

INDETrial == inPc = "de" /\ DETrial
INDENextSweep == inPc = "de" /\ DENextSweep
INDEReturn == inPc = "de" /\ DEReturn

\* childrenChromos[best_i] = getBestDEChromosome(...)
INReplaceBestChild ==
    /\ inPc = "de"
    /\ populationChromos # <<>>
    /\ inChildren' = [inChildren EXCEPT ![inBest + 1] = getBestDEChromosome(populationChromos)]
    /\ inPc' = "replaced"
    /\ UNCHANGED <<inBest, inBefore, deVars>>
    /\ UNCHANGED notInDeVars

INNext ==
    \/ INEvaluateChildren
    \/ INNoBestChild
    \/ INDETrial
    \/ INDENextSweep
    \/ INDEReturn
    \/ INReplaceBestChild

InitIN == INInit /\ ChromoInit /\ CGPIdle /\ ReproIdle /\ SlotsIdle
    /\ SeedsIdle /\ ParamsIdle
    /\ GenesIdle
    /\ HarnessIdle
    /\ SingleIdle
    /\ OperandsIdle

SpecIN == InitIN /\ [][INNext]_vars

(***************************************************************************)
(* C23: in every generation of runCGPDE_IN the chromosome placed in the    *)
(* slot of the best child after the DE step is the member of the DE        *)
(* population of lowest training fitness, has the topology of the child it *)
(* replaces, and has a training fitness less than or equal to the one the  *)
(* child had before DE.                                                    *)
(***************************************************************************)
C23_BestChildRefined ==
    /\ inPc # "out of bounds"
    /\ inPc = "replaced" =>
          LET placed == inChildren[inBest + 1]
          IN /\ \E k \in Individuals :
                   /\ placed.weights = populationChromos[k].weights
                   /\ placed.fitness = populationChromos[k].fitness
                   /\ \A other \in Individuals :
                         placed.fitness <= populationChromos[other].fitness
             /\ sameTopology(placed, inBefore)
             /\ placed.fitness <= inBefore.fitness

(***************************************************************************)
(* SpecGenes: the genes of a parent made by initialiseChromosome and of a  *)
(* child, under mutateChromosome with every mutation operator,             *)
(* copyChromosome and the reproduction scheme, for every setting of        *)
(* shortcutConnections and recurrentConnectionProbability (in hundredths). *)
(***************************************************************************)
\* randInt(n): 0 when n is 0, a value below n otherwise; the draws followed
\* are the smallest and the largest
randIntValues(n) == IF n = 0 THEN {0} ELSE {0, n - 1}

\* randDecimal, in hundredths: the smallest and the largest value of [0, 1[
randDecimalValues == {0, 99}

randomFunctions == randIntValues(numFunctions)

randomNodeInputs_Anywhere(nodePosition, recurrentConnectionProbability) ==
    randIntValues(NumInputs + NumNodes)

\* getRandomNodeInput
randomNodeInputs(nodePosition, recurrentConnectionProbability) ==
    { IF rj < recurrentConnectionProbability
      THEN ahead + nodePosition + NumInputs
      ELSE previous :
          rj \in randDecimalValues,
          ahead \in randIntValues(NumNodes - nodePosition),
          previous \in randIntValues(NumInputs + nodePosition) }

\* getRandomChromosomeOutput
randomChromosomeOutputs(shortcutConnections) ==
    IF shortcutConnections = 1
    THEN randIntValues(NumInputs + NumNodes)
    ELSE { r + NumInputs : r \in randIntValues(NumNodes) }

\* initialiseChromosome: initialiseNode draws the genes of every node, the
\* output genes are drawn, and the active nodes are set.  The chromosomes
\* followed are the ones made when every draw of a generator returns the same
\* element (draw) of its values, the smallest or the largest.
drawOf(values, draw) ==
    IF draw = 0 THEN CHOOSE v \in values : \A w \in values : v <= w
    ELSE CHOOSE v \in values : \A w \in values : v >= w

initialiseChromosome_Genes(p, draw) ==
    setChromosomeActiveNodes(
        [newChromosome([o \in Outs |->
                           drawOf(randomChromosomeOutputs(p.shortcutConnections), draw)])
            EXCEPT !.function = [n \in Nodes |-> drawOf(randomFunctions, draw)],
                   !.inputs = [n \in Nodes |-> [j \in Slots |->
                                  drawOf(randomNodeInputs(
                                             n, p.recurrentConnectionProbability), draw)]]])

GenesInit ==
    /\ geneParams \in [shortcutConnections : {0, 1},
                       recurrentConnectionProbability : {0, 50, 100}]
    /\ geneParent \in { initialiseChromosome_Genes(geneParams, draw) : draw \in {0, 1} }
    /\ geneChild = initialiseChromosome_Genes(geneParams, 0)
    /\ geneTarget = ""
    /\ geneMutationType \in mutationTypes
    /\ geneRedraws = 0
    /\ geneCalls = 0

\* mutateChromosome is called on the parent
GeneMutateParent ==
    /\ geneTarget = ""
    /\ geneCalls < MaxMutateCalls
    /\ geneTarget' = "parent"
    /\ geneRedraws' = 0
    /\ geneCalls' = geneCalls + 1
    /\ UNCHANGED <<geneParams, geneParent, geneChild, geneMutationType>>
    /\ UNCHANGED notGeneVars

\* mutateRandomParent: the child becomes the copy of the parent and
\* mutateChromosome is called on it
GeneReproduce ==
    /\ geneTarget = ""
    /\ geneCalls < MaxMutateCalls
    /\ geneChild' = copyChromosomeNodes(geneChild, geneParent)
    /\ geneTarget' = "child"
    /\ geneRedraws' = 0
    /\ geneCalls' = geneCalls + 1
    /\ UNCHANGED <<geneParams, geneParent, geneMutationType>>
    /\ UNCHANGED notGeneVars

\* copyChromosome(parent, child)
GeneCopyBack ==
    /\ geneTarget = ""
    /\ geneCalls > 0
    /\ geneParent # copyChromosomeNodes(geneParent, geneChild)
    /\ geneParent' = copyChromosomeNodes(geneParent, geneChild)
    /\ UNCHANGED <<geneParams, geneChild, geneTarget, geneMutationType, geneRedraws,
                   geneCalls>>
    /\ UNCHANGED notGeneVars

\* the chromosome the operator works on
geneMutated == IF geneTarget = "parent" THEN geneParent ELSE geneChild

\* the nodes whose genes the operator may redraw
geneMutableNodes ==
    IF geneMutationType = "onlyActive"
    THEN { geneMutated.activeNodes[k] : k \in 1..Len(geneMutated.activeNodes) }
    ELSE Nodes

\* the operator has redrawn a gene of the chromosome
geneRedrawn(c) ==
    /\ geneParent' = IF geneTarget = "parent" THEN c ELSE geneParent
    /\ geneChild' = IF geneTarget = "child" THEN c ELSE geneChild
    /\ geneRedraws' = geneRedraws + 1
    /\ UNCHANGED <<geneParams, geneTarget, geneMutationType, geneCalls>>
    /\ UNCHANGED notGeneVars

GeneRedrawFunction ==
    /\ geneTarget # ""
    /\ geneRedraws < MaxMutations
    /\ \E nodeIndex \in geneMutableNodes : \E f \in randomFunctions :
          geneRedrawn([geneMutated EXCEPT !.function[nodeIndex] = f])

GeneRedrawInput ==
    /\ geneTarget # ""
    /\ geneRedraws < MaxMutations
    /\ \E nodeIndex \in geneMutableNodes : \E nodeInputIndex \in Slots :
       \E v \in randomNodeInputs(nodeIndex, geneParams.recurrentConnectionProbability) :
          geneRedrawn([geneMutated EXCEPT !.inputs[nodeIndex][nodeInputIndex] = v])

GeneRedrawOutput ==
    /\ geneTarget # ""
    /\ geneRedraws < MaxMutations
    /\ \E nodeIndex \in Outs :
       \E v \in randomChromosomeOutputs(geneParams.shortcutConnections) :
          geneRedrawn([geneMutated EXCEPT !.outputNodes[nodeIndex] = v])

\* the operator returns and mutateChromosome sets the active nodes
GeneFinishMutation ==
    /\ geneTarget # ""
    /\ geneParent' = IF geneTarget = "parent"
                     THEN setChromosomeActiveNodes(geneParent) ELSE geneParent
    /\ geneChild' = IF geneTarget = "child"
                    THEN setChromosomeActiveNodes(geneChild) ELSE geneChild
    /\ geneTarget' = ""
    /\ UNCHANGED <<geneParams, geneMutationType, geneRedraws, geneCalls>>
    /\ UNCHANGED notGeneVars

GenesNext ==
    \/ GeneMutateParent
    \/ GeneReproduce
    \/ GeneCopyBack
    \/ GeneRedrawFunction
    \/ GeneRedrawInput
    \/ GeneRedrawOutput
    \/ GeneFinishMutation

InitGenes == GenesInit /\ ChromoInit /\ CGPIdle /\ DEIdle /\ ReproIdle /\ SlotsIdle
    /\ SeedsIdle /\ ParamsIdle /\ INIdle
    /\ HarnessIdle
    /\ SingleIdle
    /\ OperandsIdle

SpecGenes == InitGenes /\ [][GenesNext]_vars

(***************************************************************************)
(* C24: after initialiseChromosome and any sequence of mutateChromosome,   *)
(* copyChromosome and reproduction calls every gene is legal: a function   *)
(* gene is in [0, numFunctions); an input gene of the node at position p   *)
(* is in [0, numInputs + p) or, only if recurrent connections have a       *)
(* non-zero probability, in [numInputs + p, numInputs + numNodes); an      *)
(* output gene is in [0, numInputs + numNodes), and at least numInputs     *)
(* when shortcut connections are disabled.  With recurrent probability 0   *)
(* every input gene addresses a position before its node.                  *)
(***************************************************************************)
legalGenes(c) ==
    /\ \A n \in Nodes : 0 <= c.function[n] /\ c.function[n] < numFunctions
    /\ \A n \in Nodes : \A j \in Slots :
          \/ 0 <= c.inputs[n][j] /\ c.inputs[n][j] < NumInputs + n
          \/ /\ geneParams.recurrentConnectionProbability > 0
             /\ NumInputs + n <= c.inputs[n][j]
             /\ c.inputs[n][j] < NumInputs + NumNodes
    /\ \A o \in Outs :
          /\ 0 <= c.outputNodes[o] /\ c.outputNodes[o] < NumInputs + NumNodes
          /\ geneParams.shortcutConnections = 0 => c.outputNodes[o] >= NumInputs
    /\ geneParams.recurrentConnectionProbability = 0 =>
          \A n \in Nodes : \A j \in Slots : c.inputs[n][j] < NumInputs + n

C24_GenesLegal ==
    geneParams # <<>> => legalGenes(geneParent) /\ legalGenes(geneChild)

\* without shortcut and recurrent connections, the child of a mutated parent
\* has been mutated in an input gene and an output gene
C24_Witness ==
    /\ geneParams # <<>>
    /\ geneParams.shortcutConnections = 0
    /\ geneParams.recurrentConnectionProbability = 0
    /\ geneCalls = MaxMutateCalls
    /\ geneTarget = ""
    /\ geneChild.function # geneParent.function
    /\ geneChild.inputs # geneParent.inputs
    /\ geneChild.outputNodes # geneParent.outputNodes
    /\ geneParent # initialiseChromosome_Genes(geneParams, 0)

(***************************************************************************)
(* C25: selectFittest never reads a candidate slot at or beyond            *)
(* numCandidateChromos: for every mu >= 1, lambda >= 1 and strategy the    *)
(* setters accept, the number of parents to select is at most the number   *)
(* of candidates of the pool the run loop built.                           *)
(***************************************************************************)
C25_SelectionWithinCandidates ==
    /\ pc = "select" => mu <= numCandidateChromos
    /\ pc # "out of bounds"

(***************************************************************************)
(* C26: when runCGPDE_IN returns, every chromosome allocated during the    *)
(* run other than the returned best chromosome has been freed: no          *)
(* chromosome is leaked when the slot of the best child is replaced by the *)
(* DE result.                                                              *)
(***************************************************************************)
C26_AllFreedAtReturn ==
    (slotRun # <<>> /\ slotRun.algorithm = "runCGPDE_IN" /\ slotPc = "returned") =>
        DOMAIN heap.nodes = {slots.best}

(***************************************************************************)
(* SpecHarness: the data sets of main.  Every repetition shuffles          *)
(* mainData, reduces it, generates the folds, runs the folds in parallel   *)
(* and frees the folds and reducedData; mainData is freed at the end.  A   *)
(* data set is an identifier; dataSets holds the ones not freed.           *)
(***************************************************************************)
Folds == 0..(NumFolds - 1)

\* the values of percentage, in hundredths
percentages == {-50, 0, 50, 99, 100, 150}

\* reduceSampleSize: the data set it returns, fresh being the one malloc
\* would return
reduceSampleSize(data, percent, fresh) ==
    IF percent <= 0 \/ percent >= 100 THEN data ELSE fresh

\* main up to its loop: mainData has been read from the file
HarnessInit ==
    /\ percentage \in percentages
    /\ dataSets = {0}
    /\ nextData = 1
    /\ mainData = 0
    /\ reducedData = -1
    /\ folds = <<>>
    /\ foldPc = [j \in Folds |-> "todo"]
    /\ foldData = [j \in Folds |-> -1]
    /\ repetition = 0
    /\ harnessPc = "shuffle"
    /\ harnessFault = {}

\* the access to a freed data set is undefined: the run either stops there
\* or carries on
afterFault(next) == {"crashed", next}

\* shuffleData(mainData, &seed) reads and writes the samples of mainData
ShuffleData ==
    /\ harnessPc = "shuffle"
    /\ IF mainData \in dataSets
       THEN harnessPc' = "reduce" /\ harnessFault' = harnessFault
       ELSE /\ harnessPc' \in afterFault("reduce")
            /\ harnessFault' = harnessFault \cup {"shuffleData of a freed data set"}
    /\ UNCHANGED <<percentage, dataSets, nextData, mainData, reducedData, folds, foldPc,
                   foldData, repetition>>
    /\ UNCHANGED notHarnessVars

\* reducedData = reduceSampleSize(mainData, percentage)
ReduceSampleSize ==
    /\ harnessPc = "reduce"
    /\ reducedData' = reduceSampleSize(mainData, percentage, nextData)
    /\ dataSets' = IF reducedData' = nextData THEN dataSets \cup {nextData} ELSE dataSets
    /\ nextData' = IF reducedData' = nextData THEN nextData + 1 ELSE nextData
    /\ IF mainData \in dataSets
       THEN harnessPc' = "folds" /\ harnessFault' = harnessFault
       ELSE /\ harnessPc' \in afterFault("folds")
            /\ harnessFault' = harnessFault \cup {"reduceSampleSize of a freed data set"}
    /\ UNCHANGED <<percentage, mainData, folds, foldPc, foldData, repetition>>
    /\ UNCHANGED notHarnessVars

\* folds = generateFolds(reducedData)
GenerateFolds ==
    /\ harnessPc = "folds"
    /\ folds' = [j \in Folds |-> nextData + j]
    /\ dataSets' = dataSets \cup { nextData + j : j \in Folds }
    /\ nextData' = nextData + NumFolds
    /\ foldPc' = [j \in Folds |-> "todo"]
    /\ IF reducedData \in dataSets
       THEN harnessPc' = "parallel" /\ harnessFault' = harnessFault
       ELSE /\ harnessPc' \in afterFault("parallel")
            /\ harnessFault' = harnessFault \cup {"generateFolds of a freed data set"}
    /\ UNCHANGED <<percentage, mainData, reducedData, foldData, repetition>>
    /\ UNCHANGED notHarnessVars

\* a fold run of the parallel loop builds its training, validation and
\* testing data from the folds
FoldRunStarts(j) ==
    /\ harnessPc = "parallel"
    /\ foldPc[j] = "todo"
    /\ foldData' = [foldData EXCEPT ![j] = nextData]
    /\ dataSets' = dataSets \cup {nextData}
    /\ nextData' = nextData + 1
    /\ foldPc' = [foldPc EXCEPT ![j] = "running"]
    /\ UNCHANGED <<percentage, mainData, reducedData, folds, repetition, harnessPc,
                   harnessFault>>
    /\ UNCHANGED notHarnessVars

\* the fold run clears its training, validation and testing sets
FoldRunEnds(j) ==
    /\ harnessPc = "parallel"
    /\ foldPc[j] = "running"
    /\ dataSets' = dataSets \ {foldData[j]}
    /\ foldData' = [foldData EXCEPT ![j] = -1]
    /\ foldPc' = [foldPc EXCEPT ![j] = "done"]
    /\ UNCHANGED <<percentage, nextData, mainData, reducedData, folds, repetition,
                   harnessPc, harnessFault>>
    /\ UNCHANGED notHarnessVars

\* clear folds
FreeFolds ==
    /\ harnessPc = "parallel"
    /\ \A j \in Folds : foldPc[j] = "done"
    /\ dataSets' = dataSets \ { folds[j] : j \in Folds }
    /\ folds' = <<>>
    /\ harnessPc' = "freeReduced"
    /\ UNCHANGED <<percentage, nextData, mainData, reducedData, foldPc, foldData,
                   repetition, harnessFault>>
    /\ UNCHANGED notHarnessVars

\* freeDataSet(reducedData), and the next repetition
FreeReducedData ==
    /\ harnessPc = "freeReduced"
    /\ dataSets' = dataSets \ {reducedData}
    /\ repetition' = repetition + 1
    /\ \E next \in {IF repetition + 1 < NumRepetitions THEN "shuffle" ELSE "freeMain"} :
         IF reducedData \in dataSets
         THEN harnessPc' = next /\ harnessFault' = harnessFault
         ELSE /\ harnessPc' \in afterFault(next)
              /\ harnessFault' = harnessFault \cup {"freeDataSet of a freed data set"}
    /\ UNCHANGED <<percentage, nextData, mainData, reducedData, folds, foldPc, foldData>>
    /\ UNCHANGED notHarnessVars

\* freeDataSet(mainData) after the loop
FreeMainData ==
    /\ harnessPc = "freeMain"
    /\ dataSets' = dataSets \ {mainData}
    /\ IF mainData \in dataSets
       THEN harnessPc' = "done" /\ harnessFault' = harnessFault
       ELSE /\ harnessPc' \in afterFault("done")
            /\ harnessFault' = harnessFault \cup {"freeDataSet of a freed data set"}
    /\ UNCHANGED <<percentage, nextData, mainData, reducedData, folds, foldPc, foldData,
                   repetition>>
    /\ UNCHANGED notHarnessVars

HarnessNext ==
    \/ ShuffleData
    \/ ReduceSampleSize
    \/ GenerateFolds
    \/ \E j \in Folds : FoldRunStarts(j)
    \/ \E j \in Folds : FoldRunEnds(j)
    \/ FreeFolds
    \/ FreeReducedData
    \/ FreeMainData

InitHarness == HarnessInit /\ ChromoInit /\ CGPIdle /\ DEIdle /\ ReproIdle /\ SlotsIdle
    /\ SeedsIdle /\ ParamsIdle /\ INIdle /\ GenesIdle
    /\ SingleIdle
    /\ OperandsIdle

SpecHarness == InitHarness /\ [][HarnessNext]_vars

(***************************************************************************)
(* C27: in the experiment harness no data set is read or freed after it    *)
(* has been freed: for every percentage, the data set reduceSampleSize     *)
(* returns is an instance distinct from its argument, so that freeing it   *)
(* at the end of a repetition leaves mainData valid for the shuffle of the *)
(* next repetition and for the final free.                                 *)
(***************************************************************************)
C27_MainDataOutlivesReducedData ==
    /\ harnessFault = {}
    /\ harnessPc \in {"folds", "parallel", "freeReduced"} => reducedData # mainData
    /\ harnessPc \in {"shuffle", "freeMain"} => mainData \in dataSets

(***************************************************************************)
(* SpecSingle: the redraw loop of singleMutation on a chromosome           *)
(* initialiseChromosome has just made, for every numInputs, numNodes,      *)
(* numOutputs, arity, function set and shortcut setting within the bounds. *)
(* One step is one iteration of the loop.  SpecSingleFair adds that every  *)
(* draw that stays possible is eventually made.                            *)
(***************************************************************************)
\* the function sets, as the maxNumInputs of their functions
singleFunctionSets == {<<-1>>, <<-1, 1>>}

\* the values of randInt(n, seed)
randInt(n) == IF n = 0 THEN {0} ELSE 0..(n - 1)

\* the values of getRandomFunction(numFunctions, seed)
singleRandomFunction(p) == randInt(Len(p.funcSet))

\* the values of getRandomNodeInput(numChromoInputs, numNodes, nodePosition,
\* recurrentConnectionProbability, seed); randDecimal is in [0, 1[
singleRandomNodeInput(p, nodePosition) ==
    (IF p.recurrentConnectionProbability > 0
     THEN { r + nodePosition + p.numInputs : r \in randInt(p.numNodes - nodePosition) }
     ELSE {})
    \cup
    (IF p.recurrentConnectionProbability < 100
     THEN randInt(p.numInputs + nodePosition)
     ELSE {})

\* the values of getRandomChromosomeOutput(numInputs, numNodes,
\* shortcutConnections, seed)
singleRandomChromosomeOutput(p) ==
    IF p.shortcutConnections = 1
    THEN randInt(p.numInputs + p.numNodes)
    ELSE { r + p.numInputs : r \in randInt(p.numNodes) }

singleNodes(p) == 0..(p.numNodes - 1)
singleSlots(p) == 0..(p.arity - 1)
singleOuts(p) == 0..(p.numOutputs - 1)

\* getChromosomeNodeArity of node n
singleNodeArity(p, c, n) ==
    LET maxArity == p.funcSet[c.function[n] + 1]
    IN  IF maxArity = -1 THEN p.arity
        ELSE IF maxArity < p.arity THEN maxArity
        ELSE p.arity

\* setChromosomeActiveNodes: the nodes reached from the outputs through the
\* inputs below each node's actual arity
RECURSIVE singleReached(_, _, _)
singleReached(p, c, S) ==
    LET T == S \cup UNION { { c.inputs[n][i] - p.numInputs :
                                 i \in 0..(singleNodeArity(p, c, n) - 1) } : n \in S }
        U == { n \in T : n >= 0 }
    IN  IF U = S THEN S ELSE singleReached(p, c, U)

singleActiveNodes(p, c) ==
    singleReached(p, c, { n \in { c.outputNodes[o] - p.numInputs : o \in singleOuts(p) } :
                            n >= 0 })

\* the chromosomes initialiseChromosome can make
singleChromosomes(p) ==
    { c \in [function : [singleNodes(p) -> singleRandomFunction(p)],
             inputs : [singleNodes(p) -> [singleSlots(p) -> 0..(p.numInputs + p.numNodes - 1)]],
             outputNodes : [singleOuts(p) -> singleRandomChromosomeOutput(p)]] :
        \A n \in singleNodes(p) : \A i \in singleSlots(p) :
            c.inputs[n][i] \in singleRandomNodeInput(p, n) }

SingleInit ==
    /\ singleParams \in [numInputs : 1..NumInputs, numNodes : 1..NumNodes,
                         numOutputs : 1..NumOutputs, arity : 0..Arity,
                         funcSet : singleFunctionSets, shortcutConnections : {0, 1},
                         recurrentConnectionProbability : {0, 50, 100}]
    /\ singleChromo \in singleChromosomes(singleParams)
    /\ singleActive = singleActiveNodes(singleParams, singleChromo)
    /\ singlePc = "loop"

\* the value-changing mutation of an active-node gene ends the loop
singleAfter(changed) == IF changed THEN "returned" ELSE "loop"

\* geneToMutate is the function gene of node nodeIndex, redrawn as f
SingleFunctionGene(nodeIndex, f) ==
    /\ singlePc = "loop"
    /\ nodeIndex \in singleNodes(singleParams)
    /\ f \in singleRandomFunction(singleParams)
    /\ singleChromo' = [singleChromo EXCEPT !.function[nodeIndex] = f]
    /\ singlePc' = singleAfter(singleChromo.function[nodeIndex] # f
                               /\ nodeIndex \in singleActive)
    /\ UNCHANGED <<singleParams, singleActive>>
    /\ UNCHANGED notSingleVars

\* geneToMutate is input nodeInputIndex of node nodeIndex, redrawn as v
SingleInputGene(nodeIndex, nodeInputIndex, v) ==
    /\ singlePc = "loop"
    /\ nodeIndex \in singleNodes(singleParams)
    /\ nodeInputIndex \in singleSlots(singleParams)
    /\ v \in singleRandomNodeInput(singleParams, nodeIndex)
    /\ singleChromo' = [singleChromo EXCEPT !.inputs[nodeIndex][nodeInputIndex] = v]
    /\ singlePc' = singleAfter(singleChromo.inputs[nodeIndex][nodeInputIndex] # v
                               /\ nodeIndex \in singleActive)
    /\ UNCHANGED <<singleParams, singleActive>>
    /\ UNCHANGED notSingleVars

\* geneToMutate is output gene nodeIndex, redrawn as v
SingleOutputGene(nodeIndex, v) ==
    /\ singlePc = "loop"
    /\ nodeIndex \in singleOuts(singleParams)
    /\ v \in singleRandomChromosomeOutput(singleParams)
    /\ singleChromo' = [singleChromo EXCEPT !.outputNodes[nodeIndex] = v]
    /\ singlePc' = singleAfter(singleChromo.outputNodes[nodeIndex] # v)
    /\ UNCHANGED <<singleParams, singleActive>>
    /\ UNCHANGED notSingleVars

singleValues == 0..(NumInputs + NumNodes)

SingleNext ==
    \/ \E n \in Nodes : \E f \in 0..1 : SingleFunctionGene(n, f)
    \/ \E n \in Nodes : \E i \in Slots : \E v \in singleValues : SingleInputGene(n, i, v)
    \/ \E o \in Outs : \E v \in singleValues : SingleOutputGene(o, v)

InitSingle == SingleInit /\ ChromoInit /\ CGPIdle /\ DEIdle /\ ReproIdle /\ SlotsIdle
    /\ SeedsIdle /\ ParamsIdle /\ INIdle /\ GenesIdle /\ HarnessIdle
    /\ OperandsIdle

SpecSingle == InitSingle /\ [][SingleNext]_vars

\* fair random draws: a gene and value randInt can draw in every iteration
\* are drawn in some iteration
SingleFairness ==
    /\ \A n \in Nodes : \A f \in 0..1 : WF_vars(SingleFunctionGene(n, f))
    /\ \A n \in Nodes : \A i \in Slots : \A v \in singleValues :
          WF_vars(SingleInputGene(n, i, v))
    /\ \A o \in Outs : \A v \in singleValues : WF_vars(SingleOutputGene(o, v))

SpecSingleFair == SpecSingle /\ SingleFairness

\* some draw of the loop changes the value of an active-node gene or of an
\* output gene
effectiveDrawExists ==
    \/ \E n \in singleActive \cap singleNodes(singleParams) :
          \/ singleRandomFunction(singleParams) # {singleChromo.function[n]}
          \/ \E i \in singleSlots(singleParams) :
                singleRandomNodeInput(singleParams, n) # {singleChromo.inputs[n][i]}
    \/ \E o \in singleOuts(singleParams) :
          singleRandomChromosomeOutput(singleParams) # {singleChromo.outputNodes[o]}

(***************************************************************************)
(* C28: singleMutation terminates: for every chromosome that               *)
(* initialiseChromosome can create and under fair random draws, the redraw *)
(* loop eventually makes a value-changing mutation of an active-node gene  *)
(* or of an output gene and returns.                                       *)
(***************************************************************************)
C28_SingleMutationReturns == <>(singlePc = "returned")

(***************************************************************************)
(* C29: the fitness setChromosomeFitness stores depends only on the genes, *)
(* the weights and the data set, not on what the chromosome went through   *)
(* before: the active set is recomputed and every node's cached output is  *)
(* reset to 0 before the evaluation, so that a chromosome, recurrent or    *)
(* not, that was mutated, resolved or evaluated before gets the fitness a  *)
(* chromosome just made from the same genes and weights gets.              *)
(***************************************************************************)
\* a chromosome with the genes and weights of c and nothing else of it
chromosomeOfGenes(c) ==
    [function |-> c.function,
     inputs |-> c.inputs,
     weights |-> c.weights,
     outputNodes |-> c.outputNodes,
     active |-> [n \in Nodes |-> 0],
     actArity |-> [n \in Nodes |-> 0],
     activeNodes |-> <<>>,
     output |-> [n \in Nodes |-> 0],
     returned |-> [n \in Nodes |-> 0],
     outputValues |-> [o \in Outs |-> 0],
     fitness |-> 0]

\* the fitness supervisedLearning computes from the state c is in
fitnessFrom(c) == supervisedLearning(c, 0, 0).fitness

C29_FitnessOfGenesOnly ==
    phase = "done" =>
        chromo.fitness = fitnessFrom(setChromosomeActiveNodes(chromosomeOfGenes(chromo)))

\* a recurrent chromosome has been evaluated a second time, and the outputs
\* its nodes hold would have given another fitness had they not been reset
C29_Witness ==
    /\ phase = "done"
    /\ evaluations >= 2
    /\ ~NonRecurrent(chromo)
    /\ \E n \in Nodes : chromo.active[n] = 1 /\ chromo.output[n] # 0
    /\ fitnessFrom(chromo) # chromo.fitness

(***************************************************************************)
(* SpecOperands: executeChromosome on one active node, for every preset    *)
(* function and every arity setArity stores.  The node's actArity operands *)
(* are gathered into nodeInputsHold one by one, then the function is       *)
(* called with actArity, nodeInputsHold and the node's weights; the model  *)
(* records the entries the function reads.                                 *)
(***************************************************************************)
\* the preset functions with the maxNumInputs they are added with
presetFunctions ==
    { <<"add", -1>>, <<"sub", -1>>, <<"mul", -1>>, <<"div", -1>>, <<"abs", 1>>,
      <<"sqrt", 1>>, <<"sq", 1>>, <<"cube", 1>>, <<"pow", 2>>, <<"exp", 1>>,
      <<"sin", 1>>, <<"cos", 1>>, <<"tan", 1>>, <<"and", -1>>, <<"nand", -1>>,
      <<"or", -1>>, <<"nor", -1>>, <<"xor", -1>>, <<"xnor", -1>>, <<"not", 1>>,
      <<"sig", -1>>, <<"gauss", -1>>, <<"step", -1>>, <<"soft", -1>>, <<"tanh", -1>>,
      <<"rand", 0>>, <<"1", 0>>, <<"0", 0>>, <<"pi", 0>>, <<"wire", 1>> }

\* the arities initialiseParameters and setArity store
acceptedArities == { a \in 0..Arity : setterStores("setArity", a) }

\* getChromosomeNodeArity for a node with the function f
presetNodeArity(f, chromoArity) ==
    LET maxArity == f[2]
    IN  IF maxArity = -1 THEN chromoArity
        ELSE IF maxArity < chromoArity THEN maxArity
        ELSE chromoArity

\* the sets of entries of inputs one call of the function can read; a loop
\* that returns or breaks early reads a prefix
operandsRead(f, numInputs) ==
    CASE f[1] \in {"add", "sub", "mul", "div"} -> { {0} \cup 1..(numInputs - 1) }
      [] f[1] \in {"abs", "sqrt", "sq", "cube", "exp", "sin", "cos", "tan", "not", "wire"} ->
            { {0} }
      [] f[1] = "pow" -> { {0, 1} }
      [] f[1] \in {"and", "nand", "or", "nor", "xor", "xnor"} ->
            { 0..(k - 1) : k \in (IF numInputs <= 0 THEN {0} ELSE 1..numInputs) }
      [] f[1] \in {"sig", "gauss", "step", "soft", "tanh"} -> { 0..(numInputs - 1) }
      [] f[1] \in {"rand", "1", "0", "pi"} -> { {} }

\* the entries of connectionWeights the function reads (sumWeigtedInputs)
weightsRead(f, numInputs) ==
    IF f[1] \in {"sig", "gauss", "step", "soft", "tanh"} THEN 0..(numInputs - 1) ELSE {}

OperandsInit ==
    /\ opArity \in acceptedArities
    /\ opFunction \in presetFunctions
    /\ opGathered = {}
    /\ opReads = {}
    /\ opWeightReads = {}
    /\ opPc = "gather"

\* nodeInputsHold[j] = the value at the node's input j, for the next j
GatherOperand ==
    /\ opPc = "gather"
    /\ \E j \in {Cardinality(opGathered)} :
          /\ j < presetNodeArity(opFunction, opArity)
          /\ opGathered' = opGathered \cup {j}
    /\ UNCHANGED <<opArity, opFunction, opReads, opWeightReads, opPc>>
    /\ UNCHANGED notOperandVars

\* functions[currentActiveNodeFunction](nodeArity, nodeInputsHold, weights)
CallNodeFunction ==
    /\ opPc = "gather"
    /\ Cardinality(opGathered) = presetNodeArity(opFunction, opArity)
    /\ opReads' \in operandsRead(opFunction, presetNodeArity(opFunction, opArity))
    /\ opWeightReads' = weightsRead(opFunction, presetNodeArity(opFunction, opArity))
    /\ opPc' = "called"
    /\ UNCHANGED <<opArity, opFunction, opGathered>>
    /\ UNCHANGED notOperandVars

OperandsNext ==
    \/ GatherOperand
    \/ CallNodeFunction

InitOperands == OperandsInit /\ ChromoInit /\ CGPIdle /\ DEIdle /\ ReproIdle /\ SlotsIdle
    /\ SeedsIdle /\ ParamsIdle /\ INIdle /\ GenesIdle /\ HarnessIdle /\ SingleIdle

SpecOperands == InitOperands /\ [][OperandsNext]_vars

(***************************************************************************)
(* C30: during executeChromosome every preset node function reads only     *)
(* operands and weights at indices below the node's actual arity passed to *)
(* it, for every preset function and every arity the setters accept: it    *)
(* reads no entry of the scratch buffer that was not gathered for this     *)
(* node and none beyond the buffer of size arity.                          *)
(***************************************************************************)
C30_ReadsBelowActualArity ==
    opPc = "called" =>
        /\ opReads \subseteq 0..(presetNodeArity(opFunction, opArity) - 1)
        /\ opWeightReads \subseteq 0..(presetNodeArity(opFunction, opArity) - 1)
        /\ opReads \subseteq opGathered
        /\ opReads \subseteq 0..(opArity - 1)

====
